---- MODULE Spec2Model ----
(***************************************************************************)
(* Campaign orchestration engine of twitter_radar_system: the campaign     *)
(* state store (campaigns, matched_posts, campaign_replies), the campaign  *)
(* manager's operations, the auto replier, the rate limiter and the task   *)
(* scheduler.  An operation is one action; process_pending_reply is also    *)
(* given await by await, for the runs in which two of its calls interleave. *)
(***************************************************************************)
EXTENDS Integers, Sequences, FiniteSets, TLC

\* ------------------------------------------------------------------------
\* Program constants
\* ------------------------------------------------------------------------
RepliesPerHour == 30
MinDelaySeconds == 120
DefaultMaxPerDay == 50
DefaultDailyReplyLimit == 50
HourSeconds == 3600
TickIntervalSeconds == 300
DaySeconds == 86400
MaxHistory == 100
MaxReplyLength == 280
CutLength == 277

\* ------------------------------------------------------------------------
\* Bounds of the model
\* ------------------------------------------------------------------------
MaxPosts == 2
MaxPostCalls == 3
MaxWaitOver == 2
MaxLiveTicks == 3
MaxRuns == 1
MaxAdvances == 4
MaxTicks == 2
MaxSeeds == 2
MaxTopN == 2
MaxInteractions == 3
MaxFetched == 3
MaxPostsPerUser == 2
MaxLines == 3
MaxQueues == 3
MaxLogged == 2
MaxPublished == 102
RatePosts == 32
RateMaxIdle == 1
RateMaxFailed == 1

\* the store holds one campaign; the platform knows two tweets to reply to
CampaignIds == {1}
LogCampaigns == {1, 2}
TweetIds == {1, 2}
AllWorkers == {1, 2}

\* The clock counts seconds of local time from the midnight before start-up;
\* the service is started three minutes before the next midnight.
ClockStep == MinDelaySeconds \div 2
StartClock == DaySeconds - 3 * ClockStep
MaxClock == StartClock + MaxAdvances * ClockStep

\* daily_reply_limit values a campaign is created with (Field(50, ge=1, le=300))
DailyLimits == {1, DefaultDailyReplyLimit}

\* Python's None, for a timestamp, a tweet id, a document, a key and an outcome
NoTime == 0 - 1
NoTweet == 0
NoDoc == [missing |-> TRUE]
NoKey == [form |-> "none", id |-> 0]
NoResult == [kind |-> "none"]
NoText == "None"

VARIABLES
    campaigns,          \* db.campaigns: ObjectId -> document (NoDoc: no such document)
    matched_posts,      \* db.matched_posts, in insertion order
    campaign_replies,   \* db.campaign_replies, in insertion order
    platform,           \* the social platform: create_tweet calls, tweets created,
                        \* and its answer to the latest create_tweet call
    is_authenticated,   \* TwitterAdapter.is_authenticated
    now,                \* datetime.now()
    analysis_runs,      \* analyze_campaign coroutines in flight
    pc,                 \* worker -> position in its process_pending_reply call
    loc,                \* worker -> local variables of that call
    tick,               \* the run of process_all_campaigns in progress, if any
    last_tick,          \* when the interval trigger last fired (start-up at first)
    scheduler,          \* TaskScheduler.is_running and its AsyncIOScheduler
    mapper,             \* the call of find_top_interacted_users in progress
    post_filter,        \* the call of find_matching_posts in progress
    event_log,          \* CampaignLogger: history, subscribers and their queues
    generation,         \* the call of generate_reply made last
    last                \* the step taken last and what it returned

dbvars == <<campaigns, matched_posts, campaign_replies>>
procvars == <<pc, loc>>
schedvars == <<tick, last_tick, scheduler>>
sidevars == <<mapper, post_filter, event_log, generation>>
vars == <<campaigns, matched_posts, campaign_replies, platform, is_authenticated,
          now, analysis_runs, pc, loc, tick, last_tick, scheduler, mapper,
          post_filter, event_log, generation, last>>

\* ------------------------------------------------------------------------
\* Documents and identifiers
\* ------------------------------------------------------------------------

\* dict.get(field, default)
Get(doc, field, default) == IF field \in DOMAIN doc THEN doc[field] ELSE default

\* A campaign identifier as it is passed around: the ObjectId itself, or the
\* string str(ObjectId) that the REST layer and the scheduler hand over.
OidKey(c) == [form |-> "oid", id |-> c]
StrKey(c) == [form |-> "str", id |-> c]
KeyForms == {"oid", "str"}

\* bson.ObjectId(x): accepts the hex string and an ObjectId alike
ObjectId(key) == [form |-> "oid", id |-> key.id]

\* db.campaigns.find_one({"_id": key}): a typed comparison against the stored
\* ObjectId; a string never equals an ObjectId
FindCampaign(key) ==
    IF key.form = "oid" /\ key.id \in DOMAIN campaigns /\ campaigns[key.id] # NoDoc
    THEN campaigns[key.id]
    ELSE NoDoc

Indices(s) == DOMAIN s

\* replies of the ledger that are posted for real
IsRealPosted(r) == r.status = "posted" /\ r.dry_run = FALSE

RealPosted(c) ==
    {i \in Indices(campaign_replies) :
        /\ campaign_replies[i].campaign_id = c
        /\ IsRealPosted(campaign_replies[i])}

SetMin(S) == CHOOSE x \in S : \A y \in S : x <= y
SetMax(S) == CHOOSE x \in S : \A y \in S : x >= y

\* ------------------------------------------------------------------------
\* RateLimiter.can_post_reply
\* ------------------------------------------------------------------------

\* datetime.now().replace(hour=0, minute=0, second=0, microsecond=0)
TodayStart(t) == (t \div DaySeconds) * DaySeconds

\* count_documents({campaign_id, posted_at >= since, status posted, dry_run False})
CountRealPostedSince(c, since) ==
    Cardinality({i \in RealPosted(c) :
        /\ campaign_replies[i].posted_at # NoTime
        /\ campaign_replies[i].posted_at >= since})

\* find_one({campaign_id, status posted, dry_run False}, sort posted_at desc)
LastRealPostedAt(c) ==
    LET T == {campaign_replies[i].posted_at : i \in
                {j \in RealPosted(c) : campaign_replies[j].posted_at # NoTime}}
    IN  IF T = {} THEN NoTime ELSE SetMax(T)

\* gate 1: the per-day limit read from the campaign document
MaxPerDay(campaign) == Get(campaign, "max_replies_per_day", DefaultMaxPerDay)

DailyGateDenies(replies_today, max_per_day) == replies_today >= max_per_day

\* (variant: the hourly gate lets one more through)
HourlyGateDenies_OneMore(replies_last_hour) == replies_last_hour > RepliesPerHour

\* gate 2: the global hourly limit
HourlyGateDenies(replies_last_hour) == replies_last_hour >= RepliesPerHour

\* (variant: the delay gate waits half the delay)
DelayGateDenies_HalfDelay(time_since_last) == time_since_last < MinDelaySeconds \div 2

\* gate 3: the minimum delay since the last real reply
DelayGateDenies(time_since_last) == time_since_last < MinDelaySeconds

\* wait_time = int(min_delay - time_since_last): the time since the last
\* reply is `elapsed` whole seconds, and a fraction of a second more when
\* `fraction` holds; int() drops the fraction of the difference
WaitSeconds(elapsed, fraction) ==
    MinDelaySeconds - elapsed - (IF fraction THEN 1 ELSE 0)

\* (can_post, reason): the reason keeps the numbers its text is formatted from.
\* The clock reads `now`, and a fraction of a second past it when `fraction`.
CanPostReplyAt(key, fraction) ==
    LET c == ObjectId(key).id
        campaign == FindCampaign(ObjectId(key))
    IN  IF campaign = NoDoc
        THEN [can_post |-> FALSE, reason |-> "Campaign not found", a |-> 0, b |-> 0]
        ELSE
        LET replies_today == CountRealPostedSince(c, TodayStart(now))
            max_per_day == MaxPerDay(campaign)
            replies_last_hour == CountRealPostedSince(c, now - HourSeconds)
            last_posted_at == LastRealPostedAt(c)
        IN  IF DailyGateDenies(replies_today, max_per_day)
            THEN [can_post |-> FALSE, reason |-> "Daily limit reached",
                  a |-> replies_today, b |-> max_per_day]
            ELSE IF HourlyGateDenies(replies_last_hour)
            THEN [can_post |-> FALSE, reason |-> "Hourly limit reached",
                  a |-> replies_last_hour, b |-> RepliesPerHour]
            ELSE IF last_posted_at # NoTime /\ DelayGateDenies(now - last_posted_at)
            THEN [can_post |-> FALSE, reason |-> "Too soon since last reply",
                  a |-> WaitSeconds(now - last_posted_at, fraction), b |-> 0]
            ELSE [can_post |-> TRUE, reason |-> "OK", a |-> 0, b |-> 0]

\* the check at a clock that reads whole seconds
CanPostReply(key) == CanPostReplyAt(key, FALSE)

\* except Exception as e: return False, f"Error: {str(e)}"
CanPostReplyError == [can_post |-> FALSE, reason |-> "Error", a |-> 0, b |-> 0]

\* ------------------------------------------------------------------------
\* RateLimiter.get_wait_time
\* ------------------------------------------------------------------------
\* A reason is the sequence of the pieces of its text: "Wait ", "s", the
\* decimal digits, and the other stretches of text, one piece each.
DigitChars == <<"0", "1", "2", "3", "4", "5", "6", "7", "8", "9">>

IsDigit(piece) == \E i \in DOMAIN DigitChars : DigitChars[i] = piece

DigitValue(piece) == (CHOOSE i \in DOMAIN DigitChars : DigitChars[i] = piece) - 1

\* f"{n}" for n >= 0
RECURSIVE Digits(_)
Digits(n) ==
    IF n < 10 THEN <<DigitChars[n + 1]>>
    ELSE Append(Digits(n \div 10), DigitChars[(n % 10) + 1])

\* int(text) for a run of digits
RECURSIVE ToInt(_)
ToInt(digits) ==
    IF digits = <<>> THEN 0
    ELSE 10 * ToInt(SubSeq(digits, 1, Len(digits) - 1)) + DigitValue(digits[Len(digits)])

\* the f-strings of can_post_reply
ReasonText(gate) ==
    IF gate.reason = "Daily limit reached"
    THEN <<"Daily limit reached (">> \o Digits(gate.a) \o <<"/">> \o Digits(gate.b)
             \o <<")">>
    ELSE IF gate.reason = "Hourly limit reached"
    THEN <<"Hourly limit reached (">> \o Digits(gate.a) \o <<"/">> \o Digits(gate.b)
             \o <<")">>
    ELSE IF gate.reason = "Too soon since last reply"
    THEN <<"Too soon since last reply. ", "Wait ">> \o Digits(gate.a) \o <<"s">>
    ELSE IF gate.reason = "Error"
    THEN <<"Error: ", "connection refused">>
    ELSE <<gate.reason>>

\* the digits that start at position i
RECURSIVE DigitRun(_, _)
DigitRun(text, i) ==
    IF i <= Len(text) /\ IsDigit(text[i]) THEN <<text[i]>> \o DigitRun(text, i + 1)
    ELSE <<>>

NoWait == [found |-> FALSE, seconds |-> 0]

\* re.search(r'Wait (\d+)s', reason): the first "Wait " that is followed by
\* digits and an "s"
RECURSIVE SearchWait(_, _)
SearchWait(text, i) ==
    IF i > Len(text) THEN NoWait
    ELSE LET run == DigitRun(text, i + 1)
             end == i + 1 + Len(run)
         IN  IF /\ text[i] = "Wait "
                /\ run # <<>>
                /\ end <= Len(text)
                /\ text[end] = "s"
             THEN [found |-> TRUE, seconds |-> ToInt(run)]
             ELSE SearchWait(text, i + 1)

Contains(text, piece) == \E i \in DOMAIN text : text[i] = piece

\* get_wait_time after can_post_reply has answered
WaitTimeFor(gate) ==
    LET reason == ReasonText(gate)
        match == SearchWait(reason, 1)
    IN  IF gate.can_post THEN 0
        ELSE IF Contains(reason, "Wait ") /\ Contains(reason, "s") /\ match.found
        THEN match.seconds
        ELSE MinDelaySeconds

\* what the check answers at this moment; `raises`: the store is unreachable
CheckedGate(key, fraction, raises) ==
    IF raises THEN CanPostReplyError ELSE CanPostReplyAt(key, fraction)

\* ------------------------------------------------------------------------
\* Initial state: an empty store, every coroutine slot idle
\* ------------------------------------------------------------------------
IdleLoc == [key |-> NoKey, campaign |-> NoDoc, post |-> 0, reply_text |-> NoText,
            result |-> NoResult]

NoTick == [running |-> FALSE, queue |-> <<>>]

\* no call of find_top_interacted_users in progress
IdleMapper ==
    [phase |-> "idle", seed_users |-> <<>>, top_n |-> 0, fetched |-> <<>>,
     interaction_scores |-> <<>>, results |-> <<>>]

\* no call of find_matching_posts in progress
IdleFilter ==
    [phase |-> "idle", keywords |-> <<>>, max_posts_per_user |-> 0,
     use_grok_filter |-> FALSE, user |-> 0, fetched |-> <<>>,
     matching_posts |-> <<>>, gate |-> [kind |-> "none", lines |-> <<>>],
     results |-> <<>>]

\* CampaignLogger.__init__: no subscribers, no history; no queue made yet
NewCampaignLogger ==
    [subscribers |-> [c \in LogCampaigns |-> {}],
     log_history |-> [c \in LogCampaigns |-> <<>>],
     queues |-> <<>>,
     published |-> [c \in LogCampaigns |-> 0]]

\* generate_reply has not been called
NoGeneration ==
    [provider |-> "none", gate_asked |-> FALSE, answer |-> <<>>,
     grok_called |-> FALSE, llm_called |-> FALSE, result |-> [kind |-> "none", length |-> 0]]

\* TaskScheduler.__init__: is_running = False, an AsyncIOScheduler without jobs
NewScheduler == [is_running |-> FALSE, jobs |-> 0, instances |-> 0]

NoGate == [can_post |-> FALSE, reason |-> "none", a |-> 0, b |-> 0]
Did(op) == [op |-> op, gate |-> NoGate, result |-> NoResult]

Outcome(op, gate, result) == [op |-> op, gate |-> gate, result |-> result]


Init ==
    /\ campaigns = [c \in CampaignIds |-> NoDoc]
    /\ matched_posts = <<>>
    /\ campaign_replies = <<>>
    /\ platform = [calls |-> [k \in CampaignIds \X TweetIds |-> 0],
                   created |-> [k \in CampaignIds \X TweetIds |-> 0],
                   next_id |-> 1, answered |-> "none"]
    /\ last_tick = StartClock
    /\ is_authenticated \in BOOLEAN
    /\ now = StartClock
    /\ analysis_runs = <<>>
    /\ pc = [w \in AllWorkers |-> "idle"]
    /\ loc = [w \in AllWorkers |-> IdleLoc]
    /\ tick = NoTick
    /\ scheduler = NewScheduler
    /\ mapper = IdleMapper
    /\ post_filter = IdleFilter
    /\ event_log = NewCampaignLogger
    /\ generation = NoGeneration
    /\ last = Outcome("none", NoGate, NoResult)

\* ------------------------------------------------------------------------
\* Clock
\* ------------------------------------------------------------------------
Advance(step, limit) ==
    /\ now + step <= limit
    /\ now' = now + step
    /\ last' = Did("advance")
    /\ UNCHANGED <<dbvars, platform, is_authenticated, analysis_runs, procvars,
                   schedvars, sidevars>>

\* can_post_reply(campaign_id) called on its own
CanPostReplyCall(key, fraction, raises) ==
    /\ last' = Outcome("can_post_reply", CheckedGate(key, fraction, raises),
                       [fraction |-> fraction,
                        reason |-> ReasonText(CheckedGate(key, fraction, raises))])
    /\ UNCHANGED <<dbvars, platform, is_authenticated, now, analysis_runs, procvars,
                   schedvars, sidevars>>

\* get_wait_time(campaign_id)
GetWaitTime(key, fraction, raises) ==
    /\ last' = Outcome("get_wait_time", CheckedGate(key, fraction, raises),
                       [fraction |-> fraction,
                        seconds |-> WaitTimeFor(CheckedGate(key, fraction, raises))])
    /\ UNCHANGED <<dbvars, platform, is_authenticated, now, analysis_runs, procvars,
                   schedvars, sidevars>>

\* ------------------------------------------------------------------------
\* CampaignManager: create_campaign, start_campaign, stop_campaign
\* ------------------------------------------------------------------------
NewCampaignDoc(limit, dry) ==
    [status |-> "draft", daily_reply_limit |-> limit, dry_run |-> dry,
     total_replies |-> 0, total_clicks |-> 0]

\* insert_one gives the document a fresh ObjectId
FreshCampaignId == SetMin({c \in CampaignIds : campaigns[c] = NoDoc})

CreateCampaign(limit, dry) ==
    /\ \E c \in CampaignIds : campaigns[c] = NoDoc
    /\ campaigns' = [campaigns EXCEPT ![FreshCampaignId] = NewCampaignDoc(limit, dry)]
    /\ last' = Did("create_campaign")
    /\ UNCHANGED <<matched_posts, campaign_replies, platform, is_authenticated, now,
                   analysis_runs, procvars, schedvars, sidevars>>

\* update_one({"_id": id}, {"$set": fields}): no document, no change
SetFields(doc, fields) ==
    [f \in DOMAIN doc \cup DOMAIN fields |->
        IF f \in DOMAIN fields THEN fields[f] ELSE doc[f]]

UpdateCampaign(key, fields) ==
    IF FindCampaign(key) = NoDoc THEN campaigns
    ELSE [campaigns EXCEPT ![key.id] = SetFields(@, fields)]

NewRun(key) == [key |-> key, phase |-> "begin", todo |-> <<>>]

\* (variant: the session check is missing)
StartRejected_Never == FALSE

\* if not self.twitter.is_authenticated: return failure
StartRejected == ~is_authenticated

\* (variant: the analysis is kicked off twice)
SpawnAnalysis_Twice(key) == analysis_runs \o <<NewRun(key), NewRun(key)>>

\* asyncio.create_task(self.analyze_campaign(campaign_id))
SpawnAnalysis(key) == Append(analysis_runs, NewRun(key))

\* start_campaign(campaign_id): rejected without an authenticated session,
\* else status := active and one detached analyze_campaign task
StartCampaign(c) ==
    /\ IF StartRejected
       THEN /\ last' = Outcome("start_campaign", NoGate,
                               [success |-> FALSE,
                                error |-> "Twitter account not configured"])
            /\ UNCHANGED <<campaigns, analysis_runs>>
       ELSE /\ Len(analysis_runs) < MaxRuns
            /\ campaigns' = UpdateCampaign(ObjectId(StrKey(c)), [status |-> "active"])
            /\ analysis_runs' = SpawnAnalysis(StrKey(c))
            /\ last' = Outcome("start_campaign", NoGate,
                               [success |-> TRUE, campaign_id |-> StrKey(c)])
    /\ UNCHANGED <<matched_posts, campaign_replies, platform, is_authenticated, now,
                   procvars, schedvars, sidevars>>

StopCampaign(c) ==
    /\ campaigns' = UpdateCampaign(ObjectId(StrKey(c)), [status |-> "paused"])
    /\ last' = Outcome("stop_campaign", NoGate,
                       [success |-> TRUE, campaign_id |-> StrKey(c)])
    /\ UNCHANGED <<matched_posts, campaign_replies, platform, is_authenticated, now,
                   analysis_runs, procvars, schedvars, sidevars>>

\* ------------------------------------------------------------------------
\* CampaignManager.analyze_campaign (a detached task per start)
\* ------------------------------------------------------------------------
RemoveAt(s, i) == [j \in 1..(Len(s) - 1) |-> IF j < i THEN s[j] ELSE s[j + 1]]

RECURSIVE SumTodo(_)
SumTodo(runs) == IF runs = <<>> THEN 0 ELSE Len(Head(runs).todo) + SumTodo(Tail(runs))

\* what the mapper and the filter may hand back: posts of distinct tweets
PostLists ==
    {<<>>} \cup {<<t>> : t \in TweetIds}
           \cup {<<p[1], p[2]>> : p \in {q \in TweetIds \X TweetIds : q[1] # q[2]}}

\* the levels of the events a part of analyze_campaign publishes on the
\* campaign's log through campaign_logger, in order
EventsBeforeMapper == <<"info", "info">>
EventsBeforeSave == <<"info", "info", "success", "info">>
EventsAfterSave == <<"success", "success">>

\* except Exception as e: logger.error(...); return failure
EventsOnFailure == <<>>

AnalysisNotFound == [success |-> FALSE, error |-> "Campaign not found", events |-> <<>>]

AnalysisFailed ==
    [success |-> FALSE, error |-> "exception",
     events |-> EventsBeforeMapper \o EventsOnFailure]

AnalysisRunning(events) == [kind |-> "running", events |-> events]

AnalysisDone == [success |-> TRUE, events |-> EventsAfterSave]

\* find the campaign, run the mapper and the filter
AnalysisBegin(r, ok, posts) ==
    /\ r \in Indices(analysis_runs)
    /\ analysis_runs[r].phase = "begin"
    /\ IF FindCampaign(ObjectId(analysis_runs[r].key)) = NoDoc \/ ~ok
       THEN /\ analysis_runs' = RemoveAt(analysis_runs, r)
            /\ last' = Outcome("analyze_campaign", NoGate,
                               IF ok THEN AnalysisNotFound ELSE AnalysisFailed)
       ELSE /\ Len(matched_posts) + SumTodo(analysis_runs) + Len(posts) <= MaxPosts
            /\ analysis_runs' =
                 [analysis_runs EXCEPT ![r].phase = "saving", ![r].todo = posts]
            /\ last' = Outcome("analyze_campaign", NoGate,
                               AnalysisRunning(EventsBeforeSave))
    /\ UNCHANGED <<dbvars, platform, is_authenticated, now, procvars, schedvars, sidevars>>

NewMatchedPost(c, t) == [campaign_id |-> c, tweet_id |-> t, reply_status |-> "pending"]

\* for post in matching_posts: insert_one(post)
AnalysisSavePost(r) ==
    /\ r \in Indices(analysis_runs)
    /\ analysis_runs[r].phase = "saving"
    /\ analysis_runs[r].todo # <<>>
    /\ matched_posts' = Append(matched_posts,
           NewMatchedPost(analysis_runs[r].key.id, Head(analysis_runs[r].todo)))
    /\ analysis_runs' = [analysis_runs EXCEPT ![r].todo = Tail(@)]
    /\ last' = Outcome("analyze_campaign", NoGate, AnalysisRunning(<<>>))
    /\ UNCHANGED <<campaigns, campaign_replies, platform, is_authenticated, now,
                   procvars, schedvars, sidevars>>

\* update_one(... analysis_completed: True ...); return
AnalysisFinish(r) ==
    /\ r \in Indices(analysis_runs)
    /\ analysis_runs[r].phase = "saving"
    /\ analysis_runs[r].todo = <<>>
    /\ campaigns' = UpdateCampaign(ObjectId(analysis_runs[r].key),
                                   [analysis_completed |-> TRUE])
    /\ analysis_runs' = RemoveAt(analysis_runs, r)
    /\ last' = Outcome("analyze_campaign", NoGate, AnalysisDone)
    /\ UNCHANGED <<matched_posts, campaign_replies, platform, is_authenticated, now,
                   procvars, schedvars, sidevars>>

\* ------------------------------------------------------------------------
\* AutoReplier.post_reply
\* ------------------------------------------------------------------------
SkipOutcome == [success |-> FALSE, reason |-> "AI decided to skip or generation failed"]

DryRunOutcome(reply_text) ==
    [success |-> TRUE, dry_run |-> TRUE, reply_text |-> reply_text, tweet_id |-> NoTweet]

PostedOutcome(reply_text, tweet_id) ==
    [success |-> TRUE, dry_run |-> FALSE, reply_text |-> reply_text,
     tweet_id |-> tweet_id, url |-> "url"]

FailedOutcome(reply_text, error) ==
    [success |-> FALSE, error |-> error, reply_text |-> reply_text]

\* what generate_reply may return: None, or a text
ReplyTexts == {NoText, "text"}

\* (variant: the dry-run branch is missing)
AfterGenerate_IgnoreDryRun(reply_text, dry_run) ==
    IF reply_text = NoText THEN [next |-> "return", outcome |-> SkipOutcome]
    ELSE [next |-> "create_tweet", outcome |-> NoResult]

\* (variant: the check for None is missing)
AfterGenerate_PostsAnyway(reply_text, dry_run) ==
    IF dry_run THEN [next |-> "return", outcome |-> DryRunOutcome(reply_text)]
    ELSE [next |-> "create_tweet", outcome |-> NoResult]

\* what post_reply does once generate_reply has returned reply_text
AfterGenerate(reply_text, dry_run) ==
    IF reply_text = NoText THEN [next |-> "return", outcome |-> SkipOutcome]
    ELSE IF dry_run THEN [next |-> "return", outcome |-> DryRunOutcome(reply_text)]
    ELSE [next |-> "create_tweet", outcome |-> NoResult]

\* how the platform may answer create_tweet
CreateTweetOutcomes == {"ok", "rate_limit", "error"}

\* TwitterAdapter.create_tweet(text, reply_to) as post_reply reads its answer:
\* the platform afterwards, and the outcome post_reply returns
CreateTweet(c, t, reply_text, outcome) ==
    IF ~is_authenticated
    THEN [platform |-> platform,
          result |-> FailedOutcome(reply_text, "Twitter client not authenticated")]
    ELSE IF outcome = "ok"
    THEN [platform |-> [calls |-> [platform.calls EXCEPT ![<<c, t>>] = @ + 1],
                        created |-> [platform.created EXCEPT ![<<c, t>>] = @ + 1],
                        next_id |-> platform.next_id + 1,
                        answered |-> outcome],
          result |-> PostedOutcome(reply_text, platform.next_id)]
    ELSE [platform |-> [platform EXCEPT !.calls[<<c, t>>] = @ + 1,
                                        !.answered = outcome],
          result |-> FailedOutcome(reply_text,
                        IF outcome = "rate_limit" THEN "Twitter rate limit exceeded"
                        ELSE "error")]

PostReply(c, t, reply_text, dry_run, outcome) ==
    LET after == AfterGenerate(reply_text, dry_run)
    IN  IF after.next = "return"
        THEN [platform |-> platform, result |-> after.outcome]
        ELSE CreateTweet(c, t, reply_text, outcome)

\* ------------------------------------------------------------------------
\* CampaignManager.process_pending_reply
\* ------------------------------------------------------------------------
\* (variant: the status check is missing)
NotActive_Never(campaign) == FALSE

\* if campaign["status"] != "active"
NotActive(campaign) == campaign.status # "active"

NotFoundResult == [success |-> FALSE, error |-> "Campaign not found"]
NotActiveResult == [success |-> FALSE, error |-> "Campaign not active"]
NoPendingResult == [success |-> FALSE, reason |-> "No pending posts"]
DuplicateResult == [success |-> FALSE, reason |-> "Duplicate tweet"]

\* (variant: the selection does not look at reply_status)
PendingPosts_AnyStatus(c) ==
    {i \in Indices(matched_posts) : matched_posts[i].campaign_id = c}

\* matched_posts.find_one({campaign_id, reply_status: pending}): the first
\* such document in the collection, 0 when there is none
PendingPosts(c) ==
    {i \in Indices(matched_posts) :
        /\ matched_posts[i].campaign_id = c
        /\ matched_posts[i].reply_status = "pending"}

\* (variant: the document stored last is found first)
FindPendingPost_Latest(c) == IF PendingPosts(c) = {} THEN 0 ELSE SetMax(PendingPosts(c))

FindPendingPost(c) == IF PendingPosts(c) = {} THEN 0 ELSE SetMin(PendingPosts(c))

\* (variant: the duplicate check finds nothing)
ExistingReply_Never(c, t) == FALSE

\* campaign_replies.find_one({campaign_id, target_tweet_id, status: posted})
ExistingReply(c, t) ==
    \E i \in Indices(campaign_replies) :
        /\ campaign_replies[i].campaign_id = c
        /\ campaign_replies[i].target_tweet_id = t
        /\ campaign_replies[i].status = "posted"

\* matched_posts.update_one({"_id": post}, {"$set": {"reply_status": status}})
SetReplyStatus(post, status) ==
    [matched_posts EXCEPT ![post].reply_status = status]

\* (variant: every attempt is recorded as posted)
ReplyStatusOf_AlwaysPosted(result) == "posted"

ReplyStatusOf(result) == IF result.success THEN "posted" ELSE "failed"

ReplyDoc(c, t, result, time) ==
    [campaign_id |-> c,
     target_tweet_id |-> t,
     reply_tweet_id |-> Get(result, "tweet_id", NoTweet),
     status |-> ReplyStatusOf(result),
     error_message |-> Get(result, "error", "None"),
     dry_run |-> Get(result, "dry_run", FALSE),
     posted_at |-> IF result.success THEN time ELSE NoTime]

\* (variant: a dry-run success is counted too)
CountsAsReply_AnySuccess(result) == result.success

\* the $inc of total_replies applies to a real success only
CountsAsReply(result) == result.success /\ ~Get(result, "dry_run", FALSE)

IncTotalReplies(key) ==
    IF FindCampaign(key) = NoDoc THEN campaigns
    ELSE [campaigns EXCEPT ![key.id].total_replies = @ + 1]

\* The store, the platform and the clock after a whole call, and what the call
\* returns.  `latency` is the time generate_reply and create_tweet take.
Unchanged(result) ==
    [campaigns |-> campaigns, matched_posts |-> matched_posts,
     campaign_replies |-> campaign_replies, platform |-> platform, now |-> now,
     result |-> result]

ProcessPendingReplyEffect(key, reply_text, outcome, latency) ==
    LET c == ObjectId(key).id
        campaign == FindCampaign(ObjectId(key))
    IN  IF campaign = NoDoc THEN Unchanged(NotFoundResult)
        ELSE IF NotActive(campaign) THEN Unchanged(NotActiveResult)
        ELSE IF FindPendingPost(c) = 0 THEN Unchanged(NoPendingResult)
        ELSE
        LET pending_post == FindPendingPost(c)
            t == matched_posts[pending_post].tweet_id
        IN  IF ExistingReply(c, t)
            THEN [Unchanged(DuplicateResult) EXCEPT
                     !.matched_posts = SetReplyStatus(pending_post, "duplicate")]
            ELSE
            LET posted == PostReply(c, t, reply_text,
                                    Get(campaign, "dry_run", FALSE), outcome)
                result == posted.result
            IN  [campaigns |-> IF CountsAsReply(result)
                               THEN IncTotalReplies(ObjectId(key)) ELSE campaigns,
                 matched_posts |-> SetReplyStatus(pending_post, ReplyStatusOf(result)),
                 campaign_replies |->
                     Append(campaign_replies, ReplyDoc(c, t, result, now + latency)),
                 platform |-> posted.platform,
                 now |-> now + latency,
                 result |-> result]

Latencies == {0, ClockStep}

Apply(effect, limit) ==
    /\ effect.now <= limit
    /\ campaigns' = effect.campaigns
    /\ matched_posts' = effect.matched_posts
    /\ campaign_replies' = effect.campaign_replies
    /\ platform' = effect.platform
    /\ now' = effect.now

ProcessPendingReply(key, reply_text, outcome, latency, limit) ==
    LET effect == ProcessPendingReplyEffect(key, reply_text, outcome, latency)
    IN  /\ \A w \in AllWorkers : pc[w] = "idle"
        /\ Apply(effect, limit)
        /\ last' = Outcome("process_pending_reply", NoGate, effect.result)
        /\ UNCHANGED <<is_authenticated, analysis_runs, procvars, schedvars, sidevars>>

\* ------------------------------------------------------------------------
\* TaskScheduler.process_campaign and process_all_campaigns
\* ------------------------------------------------------------------------
ProcessCampaignEffect(key, reply_text, outcome, latency) ==
    IF FindCampaign(key) = NoDoc
    THEN [gate |-> NoGate, reply |-> Unchanged(NoResult)]
    ELSE LET gate == CanPostReply(key)
         IN  IF ~gate.can_post
             THEN [gate |-> gate, reply |-> Unchanged(NoResult)]
             ELSE [gate |-> gate,
                   reply |-> ProcessPendingReplyEffect(key, reply_text, outcome,
                                                       latency)]

\* process_campaign(campaign_id) called with the id in either form
ProcessCampaign(key, reply_text, outcome, latency, limit) ==
    LET effect == ProcessCampaignEffect(key, reply_text, outcome, latency)
    IN  /\ ~tick.running
        /\ Apply(effect.reply, limit)
        /\ last' = Outcome("process_campaign", effect.gate, effect.reply.result)
        /\ UNCHANGED <<is_authenticated, analysis_runs, procvars, schedvars, sidevars>>

\* campaigns.find({"status": "active"}).to_list(), each id as str(campaign["_id"])
RECURSIVE ActiveKeysFrom(_)
ActiveKeysFrom(c) ==
    IF c > SetMax(DOMAIN campaigns) THEN <<>>
    ELSE (IF campaigns[c] # NoDoc /\ campaigns[c].status = "active"
          THEN <<StrKey(c)>> ELSE <<>>) \o ActiveKeysFrom(c + 1)

ActiveCampaignKeys == ActiveKeysFrom(1)

\* TaskScheduler.start(): add_job(process_all_campaigns, IntervalTrigger(
\* minutes=5), id='process_campaigns', replace_existing=True); scheduler.start()
SchedulerStart ==
    /\ IF scheduler.is_running
       THEN UNCHANGED <<scheduler, last_tick>>
       ELSE /\ scheduler' = [scheduler EXCEPT !.is_running = TRUE, !.jobs = 1]
            /\ last_tick' = now
    /\ last' = Did("start")
    /\ UNCHANGED <<dbvars, platform, is_authenticated, now, analysis_runs, procvars,
                   tick>>
    /\ UNCHANGED sidevars

\* TaskScheduler.stop(): scheduler.shutdown(); the run in flight is cancelled
\* at its next await, or has passed its last await and runs to its end
SchedulerStop ==
    /\ IF ~scheduler.is_running
       THEN UNCHANGED <<scheduler, tick>>
       ELSE \E cancelled \in BOOLEAN :
              IF cancelled /\ tick.running
              THEN /\ tick' = NoTick
                   /\ scheduler' = [scheduler EXCEPT !.is_running = FALSE,
                                                     !.instances = @ - 1]
              ELSE /\ scheduler' = [scheduler EXCEPT !.is_running = FALSE]
                   /\ UNCHANGED tick
    /\ last' = Did("stop")
    /\ UNCHANGED <<dbvars, platform, is_authenticated, now, analysis_runs, procvars,
                   last_tick>>
    /\ UNCHANGED sidevars

\* the interval of the job has gone by on a running scheduler
TickDue ==
    /\ scheduler.is_running
    /\ scheduler.jobs > 0
    /\ now >= last_tick + TickIntervalSeconds

\* (variant: a run is submitted whatever is in flight)
TickMayFire_Always == TRUE

\* add_job is given no max_instances: a run is submitted only while no run of
\* the job is in flight
TickMayFire == scheduler.instances = 0

\* the interval trigger fires process_all_campaigns
TickStart ==
    /\ TickDue
    /\ TickMayFire
    /\ last_tick' = now
    /\ tick' = [running |-> TRUE, queue |-> ActiveCampaignKeys]
    /\ scheduler' = [scheduler EXCEPT !.instances = @ + 1]
    /\ last' = Did("process_all_campaigns")
    /\ UNCHANGED <<dbvars, platform, is_authenticated, now, analysis_runs, procvars>>
    /\ UNCHANGED sidevars

\* the interval has gone by while the last run is in flight: the run is skipped
TickSkipped ==
    /\ TickDue
    /\ ~TickMayFire
    /\ last_tick' = now
    /\ last' = Did("skipped")
    /\ UNCHANGED <<dbvars, platform, is_authenticated, now, analysis_runs, procvars,
                   tick, scheduler>>
    /\ UNCHANGED sidevars

\* (variant: an exception in one campaign ends the loop)
Remaining_AbortOnError(queue, raised) == IF raised THEN <<>> ELSE Tail(queue)

\* for campaign in active_campaigns: the loop goes on to the next campaign
\* however process_campaign came back (its except clause ends the call)
Remaining(queue, raised) == Tail(queue)

\* for campaign in active_campaigns: await process_campaign(str(campaign["_id"]))
TickProcess(reply_text, outcome, latency, limit) ==
    /\ tick.running
    /\ tick.queue # <<>>
    /\ LET effect == ProcessCampaignEffect(Head(tick.queue), reply_text, outcome,
                                           latency)
       IN  /\ Apply(effect.reply, limit)
           /\ last' = Outcome("process_campaign", effect.gate, effect.reply.result)
    /\ tick' = [tick EXCEPT !.queue = Remaining(@, FALSE)]
    /\ UNCHANGED <<is_authenticated, analysis_runs, procvars, last_tick, scheduler>>
    /\ UNCHANGED sidevars

RaisedResult == [kind |-> "exception"]

\* process_campaign raises inside its try block (the store is unreachable):
\* except Exception as e: logger.error(...)
TickProcessRaises ==
    /\ tick.running
    /\ tick.queue # <<>>
    /\ last' = Outcome("process_campaign", NoGate, RaisedResult)
    /\ tick' = [tick EXCEPT !.queue = Remaining(@, TRUE)]
    /\ UNCHANGED <<dbvars, platform, is_authenticated, now, analysis_runs, procvars,
                   last_tick, scheduler>>
    /\ UNCHANGED sidevars

TickEnd ==
    /\ tick.running
    /\ tick.queue = <<>>
    /\ tick' = NoTick
    /\ scheduler' = [scheduler EXCEPT !.instances = @ - 1]
    /\ last' = Did("process_all_campaigns")
    /\ UNCHANGED <<dbvars, platform, is_authenticated, now, analysis_runs, procvars,
                   last_tick>>
    /\ UNCHANGED sidevars

\* ------------------------------------------------------------------------
\* InteractionMapper.find_top_interacted_users
\* ------------------------------------------------------------------------

\* A username is the sequence of its characters; screen names as the platform
\* returns them carry no "@", seed users are given with or without one.
ScreenNames == {<<"a">>, <<"b">>, <<"c">>}
Handles == ScreenNames \cup {<<"@">> \o n : n \in ScreenNames}

RECURSIVE LStrip(_)
LStrip(s) == IF s # <<>> /\ Head(s) = "@" THEN LStrip(Tail(s)) ELSE s

RECURSIVE RStrip(_)
RStrip(s) ==
    IF s # <<>> /\ s[Len(s)] = "@" THEN RStrip(SubSeq(s, 1, Len(s) - 1)) ELSE s

\* (variant: the seed is looked up as it was given)
Strip_Nothing(s) == s

\* seed.strip('@')
Strip(s) == RStrip(LStrip(s))

\* (variant: every interaction scores one point)
Points_Flat(kind) == 1

\* likers score 1 point, retweeters 2
Points(kind) == IF kind = "liker" THEN 1 ELSE 2

\* interaction_scores[user] += points on a defaultdict(int): a dict keeps its
\* keys in the order they were first inserted
AddScore(scores, user, points) ==
    IF \E i \in DOMAIN scores : scores[i].username = user
    THEN [i \in DOMAIN scores |->
             IF scores[i].username = user
             THEN [scores[i] EXCEPT !.score = @ + points]
             ELSE scores[i]]
    ELSE Append(scores, [username |-> user, score |-> points])

\* interaction_scores.pop(username, None)
Pop(scores, username) == SelectSeq(scores, LAMBDA e : e.username # username)

\* for seed in seed_users: interaction_scores.pop(seed.strip('@'), None)
RECURSIVE RemoveSeeds(_, _)
RemoveSeeds(scores, seeds) ==
    IF seeds = <<>> THEN scores
    ELSE RemoveSeeds(Pop(scores, Strip(Head(seeds))), Tail(seeds))

\* (variant: an entry goes in front of the entries of equal score)
InsertByScore_BeforeTies(sorted, e) ==
    LET before == SelectSeq(sorted, LAMBDA x : x.score > e.score)
        after == SelectSeq(sorted, LAMBDA x : x.score <= e.score)
    IN  before \o <<e>> \o after

\* the place of an entry in a stable sort by descending score: behind every
\* entry of the same or a higher score that came before it
InsertByScore(sorted, e) ==
    LET before == SelectSeq(sorted, LAMBDA x : x.score >= e.score)
        after == SelectSeq(sorted, LAMBDA x : x.score < e.score)
    IN  before \o <<e>> \o after

\* sorted(interaction_scores.items(), key=lambda x: x[1], reverse=True)
RECURSIVE SortedByScore(_)
SortedByScore(items) ==
    IF items = <<>> THEN <<>>
    ELSE InsertByScore(SortedByScore(SubSeq(items, 1, Len(items) - 1)),
                       items[Len(items)])

\* [:top_n]
Take(items, n) == SubSeq(items, 1, IF n < Len(items) THEN n ELSE Len(items))

\* the dictionaries of the result list
FormatResults(items, time) ==
    [i \in DOMAIN items |->
        [username |-> items[i].username, interaction_score |-> items[i].score,
         last_interaction |-> time]]

\* find_top_interacted_users(seed_users, top_n) is called
MapperCall(seed_users, top_n) ==
    /\ mapper.phase = "idle"
    /\ mapper' = [IdleMapper EXCEPT !.phase = "scoring", !.seed_users = seed_users,
                                    !.top_n = top_n]
    /\ last' = Did("find_top_interacted_users")
    /\ UNCHANGED <<dbvars, platform, is_authenticated, now, analysis_runs, procvars,
                   schedvars>>
    /\ UNCHANGED <<post_filter, event_log, generation>>

\* one liker or retweeter of a fetched tweet is scored
MapperScore(user, kind) ==
    /\ mapper.phase = "scoring"
    /\ Len(mapper.fetched) < MaxInteractions
    /\ mapper' = [mapper EXCEPT
           !.fetched = Append(@, [username |-> user, kind |-> kind]),
           !.interaction_scores = AddScore(@, user, Points(kind))]
    /\ last' = Did("find_top_interacted_users")
    /\ UNCHANGED <<dbvars, platform, is_authenticated, now, analysis_runs, procvars,
                   schedvars>>
    /\ UNCHANGED <<post_filter, event_log, generation>>

\* the seeds are removed, the rest sorted, cut to top_n and returned
MapperReturn ==
    /\ mapper.phase = "scoring"
    /\ LET remaining == RemoveSeeds(mapper.interaction_scores, mapper.seed_users)
           results == FormatResults(Take(SortedByScore(remaining), mapper.top_n),
                                    now)
       IN  /\ mapper' = [mapper EXCEPT !.phase = "done",
                                       !.interaction_scores = remaining,
                                       !.results = results]
           /\ last' = Outcome("find_top_interacted_users", NoGate,
                              [results |-> results])
    /\ UNCHANGED <<dbvars, platform, is_authenticated, now, analysis_runs, procvars,
                   schedvars>>
    /\ UNCHANGED <<post_filter, event_log, generation>>

\* ------------------------------------------------------------------------
\* PostFilter.find_matching_posts: the keyword filter
\* ------------------------------------------------------------------------

\* A text is the sequence of its characters.
UpperCase == <<"A", "B", "E", "N", "O", "S", "Y">>
LowerCase == <<"a", "b", "e", "n", "o", "s", "y">>

LowerChar(ch) ==
    IF \E i \in DOMAIN UpperCase : UpperCase[i] = ch
    THEN LowerCase[CHOOSE i \in DOMAIN UpperCase : UpperCase[i] = ch]
    ELSE ch

\* (variant: the text is compared as it is written)
ToLower_Identity(text) == text

\* str.lower()
ToLower(text) == [i \in DOMAIN text |-> LowerChar(text[i])]

\* needle in haystack
IsSubstring(needle, haystack) ==
    \E offset \in 0..(Len(haystack) - Len(needle)) :
        SubSeq(haystack, offset + 1, offset + Len(needle)) = needle

\* _matches_keywords: any(keyword.lower() in text.lower() for keyword in keywords)
MatchesKeywords(text, keywords) ==
    \E k \in DOMAIN keywords : IsSubstring(ToLower(keywords[k]), ToLower(text))

\* (variant: only the first keyword that matched is kept)
GetMatchedKeywords_FirstOnly(text, keywords) ==
    LET all == SelectSeq(keywords,
                         LAMBDA kw : IsSubstring(ToLower(kw), ToLower(text)))
    IN  IF all = <<>> THEN <<>> ELSE <<Head(all)>>

\* _get_matched_keywords: [kw for kw in keywords if kw.lower() in text.lower()]
GetMatchedKeywords(text, keywords) ==
    SelectSeq(keywords, LAMBDA kw : IsSubstring(ToLower(kw), ToLower(text)))

\* the record appended to user_matches
MatchRecord(username, tweet, keywords) ==
    [tweet_id |-> tweet.tweet_id, username |-> username, text |-> tweet.text,
     matched_keywords |-> GetMatchedKeywords(tweet.text, keywords),
     grok_approved |-> FALSE, grok_reason |-> <<>>]

\* (variant: the loop over a user's tweets never breaks)
LimitReached_Never(user_matches, max_posts_per_user) == FALSE

\* if len(user_matches) >= max_posts_per_user: break
LimitReached(user_matches, max_posts_per_user) ==
    Len(user_matches) >= max_posts_per_user

\* for tweet in tweets: keep the tweets that match until the limit is reached
RECURSIVE UserMatches(_, _, _, _, _)
UserMatches(username, tweets, keywords, max_posts_per_user, user_matches) ==
    IF tweets = <<>> THEN user_matches
    ELSE IF MatchesKeywords(Head(tweets).text, keywords)
    THEN LET found == Append(user_matches,
                             MatchRecord(username, Head(tweets), keywords))
         IN  IF LimitReached(found, max_posts_per_user) THEN found
             ELSE UserMatches(username, Tail(tweets), keywords,
                              max_posts_per_user, found)
    ELSE UserMatches(username, Tail(tweets), keywords, max_posts_per_user,
                     user_matches)

\* the users whose posts are filtered, the texts their posts can have and the
\* keyword lists of a campaign
FilterUsernames == <<(<<"b">>), (<<"c">>)>>
Texts == {<<"a", "b">>, <<"A">>, <<"c">>}
KeywordLists ==
    {<<(<<"a">>)>>, <<(<<"A">>), (<<"b">>)>>, <<(<<"B">>)>>,
     <<(<<"b">>), (<<"d">>)>>}

\* the tweets get_user_tweets returns for the user at a position of usernames:
\* the platform's tweet ids are distinct and grow with position
TweetsOf(user, texts) ==
    [k \in DOMAIN texts |->
        [tweet_id |-> (user - 1) * (MaxFetched + 1) + k, text |-> texts[k]]]

TextLists == UNION {[1..n -> Texts] : n \in 0..MaxFetched}

\* find_matching_posts(usernames, keywords, max_posts_per_user, use_grok_filter)
FilterCall(keywords, max_posts_per_user, use_grok_filter) ==
    /\ post_filter.phase = "idle"
    /\ post_filter' = [IdleFilter EXCEPT !.phase = "users", !.keywords = keywords,
                          !.max_posts_per_user = max_posts_per_user,
                          !.use_grok_filter = use_grok_filter, !.user = 1]
    /\ last' = Did("find_matching_posts")
    /\ UNCHANGED <<dbvars, platform, is_authenticated, now, analysis_runs, procvars,
                   schedvars, mapper, event_log, generation>>

\* one turn of the loop over usernames: the user's tweets are fetched and
\* the matching ones appended to matching_posts
FilterUser(texts) ==
    /\ post_filter.phase = "users"
    /\ post_filter.user <= Len(FilterUsernames)
    /\ LET tweets == TweetsOf(post_filter.user, texts)
           user_matches == UserMatches(FilterUsernames[post_filter.user], tweets,
                                       post_filter.keywords,
                                       post_filter.max_posts_per_user, <<>>)
       IN  post_filter' = [post_filter EXCEPT
               !.user = @ + 1,
               !.fetched = Append(@, tweets),
               !.matching_posts = @ \o user_matches]
    /\ last' = Did("find_matching_posts")
    /\ UNCHANGED <<dbvars, platform, is_authenticated, now, analysis_runs, procvars,
                   schedvars, mapper, event_log, generation>>

\* get_user_tweets raises (no session): except Exception: continue
FilterUserRaises ==
    /\ post_filter.phase = "users"
    /\ post_filter.user <= Len(FilterUsernames)
    /\ post_filter' = [post_filter EXCEPT !.user = @ + 1,
                                          !.fetched = Append(@, <<>>)]
    /\ last' = Outcome("find_matching_posts", NoGate, RaisedResult)
    /\ UNCHANGED <<dbvars, platform, is_authenticated, now, analysis_runs, procvars,
                   schedvars, mapper, event_log, generation>>

\* ------------------------------------------------------------------------
\* PostFilter._filter_with_grok and _parse_grok_analysis
\* ------------------------------------------------------------------------

\* The response of the AI is a text, here the sequence of its tokens: the
\* literals of the line format, the separator ";", the line break, and the
\* words in between.
LineBreak == "\n"
IdTexts == <<"1", "2", "3", "4", "5", "6", "7", "8">>

\* str(p['tweet_id'])
IdText(tweet_id) == IdTexts[tweet_id]

\* what the AI can say about one tweet on one line, or a line of other text
VerdictLine(tweet_id, suitable, reason) ==
    [kind |-> "verdict", tweet_id |-> tweet_id, suitable |-> suitable,
     reason |-> reason]
OtherLine == [kind |-> "other", tweet_id |-> 0, suitable |-> "", reason |-> <<>>]

\* the text of a line: tweet_id=ID;suitable=yes;reason=REASON, or
\* tweet_id=ID;suitable=no
LineText(line) ==
    IF line.kind = "other" THEN <<"junk">>
    ELSE <<"tweet_id=", IdText(line.tweet_id), ";", "suitable=", line.suitable>>
         \o (IF line.reason = <<>> THEN <<>> ELSE <<";", "reason=">> \o line.reason)

\* the lines joined by line breaks
RECURSIVE ResponseText(_)
ResponseText(lines) ==
    IF lines = <<>> THEN <<>>
    ELSE IF Len(lines) = 1 THEN LineText(lines[1])
    ELSE LineText(lines[1]) \o <<LineBreak>> \o ResponseText(Tail(lines))

\* the length of the longest run of tokens other than stop that begins at i
RECURSIVE RunLength(_, _, _)
RunLength(tokens, i, stop) ==
    IF i > Len(tokens) \/ tokens[i] = stop THEN 0
    ELSE 1 + RunLength(tokens, i + 1, stop)

IsAt(tokens, i, token) == i <= Len(tokens) /\ tokens[i] = token

NoMatch == [ok |-> FALSE, tweet_id |-> <<>>, suitable |-> <<>>, reason |-> <<>>,
            next |-> 0]

\* (variant: the suitable group ends at the end of its line)
SuitableRun_ToLineEnd(tokens, i) ==
    LET to_separator == RunLength(tokens, i, ";")
        to_break == RunLength(tokens, i, LineBreak)
    IN  IF to_break < to_separator THEN to_break ELSE to_separator

\* ([^;]+) of the suitable group: every character up to the next ";"
SuitableRun(tokens, i) == RunLength(tokens, i, ";")

\* a match of tweet_id=([^;]+);suitable=([^;]+)(?:;reason=([^\n]+))? that
\* begins at token i
MatchAt(tokens, i) ==
    IF ~IsAt(tokens, i, "tweet_id=") THEN NoMatch
    ELSE
    LET id_run == RunLength(tokens, i + 1, ";")
        j == i + 1 + id_run
    IN  IF id_run = 0 \/ ~IsAt(tokens, j, ";") \/ ~IsAt(tokens, j + 1, "suitable=")
        THEN NoMatch
        ELSE
        LET suitable_run == SuitableRun(tokens, j + 2)
            k == j + 2 + suitable_run
            reason_run == IF IsAt(tokens, k, ";") /\ IsAt(tokens, k + 1, "reason=")
                          THEN RunLength(tokens, k + 2, LineBreak) ELSE 0
        IN  IF suitable_run = 0 THEN NoMatch
            ELSE [ok |-> TRUE,
                  tweet_id |-> SubSeq(tokens, i + 1, j - 1),
                  suitable |-> SubSeq(tokens, j + 2, k - 1),
                  reason |-> SubSeq(tokens, k + 2, k + 1 + reason_run),
                  next |-> IF reason_run > 0 THEN k + 2 + reason_run ELSE k]

\* re.findall(pattern, analysis_text): the matches from left to right, each
\* search beginning where the last match ended
RECURSIVE FindAll(_, _)
FindAll(tokens, i) ==
    IF i > Len(tokens) THEN <<>>
    ELSE LET match == MatchAt(tokens, i)
         IN  IF match.ok THEN <<match>> \o FindAll(tokens, match.next)
             ELSE FindAll(tokens, i + 1)

\* str.strip(): blanks and line breaks at either end are dropped
IsWhitespace(ch) == ch = LineBreak \/ ch = " "

RECURSIVE StripText(_)
StripText(text) ==
    IF text # <<>> /\ IsWhitespace(Head(text)) THEN StripText(Tail(text))
    ELSE IF text # <<>> /\ IsWhitespace(text[Len(text)])
    THEN StripText(SubSeq(text, 1, Len(text) - 1))
    ELSE text

\* match[1].strip().lower() == 'yes'
IsSuitable(match) == StripText(match.suitable) = <<"yes">>

\* next((p for p in original_posts if str(p['tweet_id']) == tweet_id), None)
PostsWithId(original_posts, id_text) ==
    SelectSeq(original_posts, LAMBDA p : <<IdText(p.tweet_id)>> = id_text)

\* the matches that approve a post of original_posts
Approvals(matches, original_posts) ==
    SelectSeq(matches, LAMBDA m :
        IsSuitable(m) /\ PostsWithId(original_posts, StripText(m.tweet_id)) # <<>>)

\* original_post['grok_approved'] = True; original_post['grok_reason'] = reason:
\* the post is one object, so it carries the reason written to it last
LastReason(approvals, id_text) ==
    LET own == SelectSeq(approvals, LAMBDA m : StripText(m.tweet_id) = id_text)
    IN  StripText(own[Len(own)].reason)

\* _parse_grok_analysis(analysis_text, original_posts)
ParseGrokAnalysis(analysis_text, original_posts) ==
    LET approvals == Approvals(FindAll(analysis_text, 1), original_posts)
    IN  [i \in DOMAIN approvals |->
            [Head(PostsWithId(original_posts, StripText(approvals[i].tweet_id)))
                EXCEPT !.grok_approved = TRUE,
                       !.grok_reason =
                           LastReason(approvals, StripText(approvals[i].tweet_id))]]

\* (variant: nothing is returned when the AI call fails)
OnGateFailure_Nothing(posts) == <<>>

\* if not result["success"]: return posts; except Exception: return posts
OnGateFailure(posts) == posts

\* what the call analyze_tweets_with_grok comes to
GateRaises == [kind |-> "raises", lines |-> <<>>]
GateFails == [kind |-> "failure", lines |-> <<>>]
GateAnswers(lines) == [kind |-> "success", lines |-> lines]

\* _filter_with_grok(posts, campaign_context)
FilterWithGrok(posts, outcome) ==
    IF outcome.kind = "success"
    THEN ParseGrokAnalysis(ResponseText(outcome.lines), posts)
    ELSE OnGateFailure(posts)

\* the loop over usernames is done
UsersDone == post_filter.phase = "users" /\ post_filter.user > Len(FilterUsernames)

\* if use_grok_filter and matching_posts and campaign_context (the manager
\* always hands over a context)
GateApplies == post_filter.use_grok_filter /\ post_filter.matching_posts # <<>>

\* the posts go through the AI filter and what is left is returned
FilterGate(outcome) ==
    /\ UsersDone
    /\ GateApplies
    /\ post_filter' = [post_filter EXCEPT
           !.phase = "done", !.gate = outcome,
           !.results = FilterWithGrok(post_filter.matching_posts, outcome)]
    /\ last' = Did("find_matching_posts")
    /\ UNCHANGED <<dbvars, platform, is_authenticated, now, analysis_runs, procvars,
                   schedvars, mapper, event_log, generation>>

\* the keyword matches are returned as they are
FilterReturn ==
    /\ UsersDone
    /\ ~GateApplies
    /\ post_filter' = [post_filter EXCEPT !.phase = "done",
                                          !.results = post_filter.matching_posts]
    /\ last' = Did("find_matching_posts")
    /\ UNCHANGED <<dbvars, platform, is_authenticated, now, analysis_runs, procvars,
                   schedvars, mapper, event_log, generation>>

\* ------------------------------------------------------------------------
\* CampaignLogger: subscribe, unsubscribe, log
\* ------------------------------------------------------------------------

\* the n-th entry logged for a campaign
LogEntry(c, n) == [level |-> "info", message |-> <<c, n>>]

\* (variant: subscribe hands over no history)
Replay_Nothing(history) == <<>>

\* for log_entry in self._log_history[campaign_id]: await queue.put(log_entry)
Replay(history) == history

\* an asyncio.Queue() made by subscribe, unbounded: every entry put into it
\* so far, whatever its reader has taken, and how many of them subscribe put
NewQueue(c, items) == [campaign_id |-> c, items |-> items, replayed |-> Len(items)]

\* (variant: the history keeps its oldest entries)
KeepLast_KeepsOldest(history, max_history) ==
    IF Len(history) > max_history THEN SubSeq(history, 1, max_history) ELSE history

\* if len(history) > self._max_history: history = history[-self._max_history:]
KeepLast(history, max_history) ==
    IF Len(history) > max_history
    THEN SubSeq(history, Len(history) - max_history + 1, Len(history))
    ELSE history

\* subscribe(campaign_id): a new queue joins the campaign's subscribers and
\* is filled with the campaign's history; no put on an unbounded queue
\* suspends, so the call runs without interruption
Subscribe(c) ==
    /\ Len(event_log.queues) < MaxQueues
    /\ LET q == Len(event_log.queues) + 1
       IN  /\ event_log' = [event_log EXCEPT
                  !.queues = Append(@, NewQueue(c, Replay(event_log.log_history[c]))),
                  !.subscribers[c] = @ \cup {q}]
           /\ last' = Outcome("subscribe", NoGate, [queue |-> q, campaign_id |-> c])
    /\ UNCHANGED <<dbvars, platform, is_authenticated, now, analysis_runs, procvars,
                   schedvars, mapper, post_filter, generation>>

\* unsubscribe(campaign_id, queue)
Unsubscribe(c, q) ==
    /\ q \in DOMAIN event_log.queues
    /\ event_log' = [event_log EXCEPT !.subscribers[c] = @ \ {q}]
    /\ last' = Outcome("unsubscribe", NoGate, [queue |-> q, campaign_id |-> c])
    /\ UNCHANGED <<dbvars, platform, is_authenticated, now, analysis_runs, procvars,
                   schedvars, mapper, post_filter, generation>>

\* (variant: the first failed put ends the broadcast; queues are visited in
\* the order they were made)
Reached_UntilFailure(subscribed, failing) ==
    {q \in subscribed : \A f \in failing : q < f}

\* for queue in subscribers: try: await queue.put(log_entry)
\* except Exception: dead_queues.add(queue)
Reached(subscribed, failing) == subscribed \ failing

\* log(campaign_id, level, message): the entry joins the history, which is cut
\* to its last entries, and is put into every queue subscribed to the
\* campaign; the queues whose put raises are dropped from the subscribers
Log(c, failing, limit) ==
    /\ event_log.published[c] < limit
    /\ failing \subseteq event_log.subscribers[c]
    /\ LET log_entry == LogEntry(c, event_log.published[c] + 1)
           reached == Reached(event_log.subscribers[c], failing)
       IN  event_log' = [event_log EXCEPT
               !.published[c] = @ + 1,
               !.log_history[c] = KeepLast(Append(@, log_entry), MaxHistory),
               !.queues = [q \in DOMAIN event_log.queues |->
                              IF q \in reached
                              THEN [event_log.queues[q] EXCEPT
                                       !.items = Append(@, log_entry)]
                              ELSE event_log.queues[q]],
               !.subscribers[c] = @ \ failing]
    /\ last' = Outcome("log", NoGate, [campaign_id |-> c, failing |-> failing])
    /\ UNCHANGED <<dbvars, platform, is_authenticated, now, analysis_runs, procvars,
                   schedvars, mapper, post_filter, generation>>

\* ------------------------------------------------------------------------
\* AutoReplier.generate_reply
\* ------------------------------------------------------------------------
Providers == {"grok", "openai", "anthropic", "both", "other"}

\* what an AI can answer: a text of some length, or the call raises
AiRaises == [kind |-> "raises", length |-> 0]
AiText(length) == [kind |-> "text", length |-> length]
AiOutcomes == {AiRaises} \cup {AiText(n) : n \in {1, MaxReplyLength, MaxReplyLength + 1}}

\* generate_reply returns None
NoReply == [kind |-> "none", length |-> 0]

\* if len(reply_text) > 280: reply_text = reply_text[:277] + "..."
CleanReply(ai) ==
    IF ai.kind = "raises" THEN NoReply
    ELSE IF ai.length > MaxReplyLength THEN AiText(CutLength + 3)
    ELSE ai

\* the answers of the native AI to the yes/no question
AnswerWords ==
    {<<"y", "e", "s">>, <<"Y", "e", "s">>, <<"Y", "E", "S">>, <<"n", "o">>,
     <<"N", "o">>, <<"N", "O">>, <<"o", "k">>, <<>>, <<"n", "o", "p", "e">>,
     <<"y", "e", "s", ",", "n", "o", "w">>, <<"s", "u", "r", "e">>,
     <<"n", "e", "v", "e", "r">>, <<"y", "e", "p">>, <<"k", "n", "o", "w">>,
     <<"n", "o", "t">>}

GateAnswerTexts ==
    AnswerWords \cup {<<" ">> \o w : w \in AnswerWords}
                \cup {w \o <<LineBreak>> : w \in AnswerWords}

\* grok_decision = response.message.strip().lower()
GrokDecision(answer) == ToLower(StripText(answer))

\* if "no" in grok_decision: return None
Refuses(grok_decision) == IsSubstring(<<"n", "o">>, grok_decision)

\* generate_reply(tweet_data, campaign) for a campaign with the given
\* ai_provider: what the native AI answers to the gating question (asked
\* only with "both"), what the generating AI returns.  Without a session
\* the calls to the native AI raise, and generate_reply returns None.
GenerateReplyEffect(provider, gate, ai) ==
    LET called == [NoGeneration EXCEPT !.provider = provider]
    IN  IF provider = "grok"
        THEN IF ~is_authenticated THEN called
             ELSE [called EXCEPT !.grok_called = TRUE, !.result = CleanReply(ai)]
        ELSE IF provider \in {"openai", "anthropic"}
        THEN [called EXCEPT !.llm_called = TRUE, !.result = CleanReply(ai)]
        ELSE IF provider = "both"
        THEN IF ~is_authenticated \/ gate.kind = "raises"
             THEN [called EXCEPT !.gate_asked = TRUE]
             ELSE IF Refuses(GrokDecision(gate.answer))
             THEN [called EXCEPT !.gate_asked = TRUE, !.answer = gate.answer]
             ELSE [called EXCEPT !.gate_asked = TRUE, !.answer = gate.answer,
                                 !.llm_called = TRUE, !.result = CleanReply(ai)]
        ELSE called

GateAnswerOutcomes ==
    {[kind |-> "raises", answer |-> <<>>]}
        \cup {[kind |-> "answer", answer |-> a] : a \in GateAnswerTexts}

GenerateReply(provider, gate, ai) ==
    /\ generation' = GenerateReplyEffect(provider, gate, ai)
    /\ last' = Did("generate_reply")
    /\ UNCHANGED <<dbvars, platform, is_authenticated, now, analysis_runs, procvars,
                   schedvars, mapper, post_filter, event_log>>

\* post_reply(tweet_data, campaign, dry_run) as a whole: generate_reply for
\* the campaign's ai_provider, then the posting of what it returned
ReplyTextOf(generated) == IF generated.result.kind = "none" THEN NoText ELSE "text"

PostReplyCall(c, t, provider, gate, ai, dry_run, outcome) ==
    LET generated == GenerateReplyEffect(provider, gate, ai)
        posted == PostReply(c, t, ReplyTextOf(generated), dry_run, outcome)
    IN  /\ platform.calls[<<c, t>>] < MaxPostCalls
        /\ generation' = generated
        /\ platform' = posted.platform
        /\ last' = Outcome("post_reply", NoGate, posted.result)
        /\ UNCHANGED <<dbvars, is_authenticated, now, analysis_runs, procvars,
                       schedvars, mapper, post_filter, event_log>>

\* ------------------------------------------------------------------------
\* Specifications
\* ------------------------------------------------------------------------
StrKeys == {StrKey(c) : c \in CampaignIds}
Keys == {OidKey(c) : c \in CampaignIds} \cup StrKeys

Manage ==
    \/ \E limit \in DailyLimits, dry \in BOOLEAN : CreateCampaign(limit, dry)
    \/ \E c \in CampaignIds : StartCampaign(c)
    \/ \E c \in CampaignIds : StopCampaign(c)

Analyse ==
    \/ \E r \in 1..MaxRuns, ok \in BOOLEAN, posts \in PostLists :
           AnalysisBegin(r, ok, posts)
    \/ \E r \in 1..MaxRuns : AnalysisSavePost(r)
    \/ \E r \in 1..MaxRuns : AnalysisFinish(r)

\* The manager's operations, each call run to completion before the next.
Next ==
    \/ Manage
    \/ Analyse
    \/ Advance(ClockStep, StartClock + ClockStep)
    \/ \E key \in StrKeys, reply_text \in ReplyTexts, outcome \in CreateTweetOutcomes :
           ProcessPendingReply(key, reply_text, outcome, 0, StartClock + ClockStep)

Spec == Init /\ [][Next]_vars

\* process_campaign called with the campaign's id in either form.
SchedNext ==
    \/ Manage
    \/ Analyse
    \/ Advance(ClockStep, MaxClock)
    \/ \E key \in Keys, reply_text \in ReplyTexts, outcome \in CreateTweetOutcomes,
          latency \in Latencies :
           ProcessCampaign(key, reply_text, outcome, latency, MaxClock)

SchedSpec == Init /\ [][SchedNext]_vars

\* The interval trigger: process_all_campaigns every five minutes.
TickMaxClock == StartClock + MaxTicks * TickIntervalSeconds

TickNext ==
    \/ Manage
    \/ Analyse
    \/ Advance(TickIntervalSeconds, TickMaxClock)
    \/ SchedulerStart
    \/ SchedulerStop
    \/ TickStart
    \/ TickSkipped
    \/ \E reply_text \in ReplyTexts, outcome \in CreateTweetOutcomes :
           TickProcess(reply_text, outcome, 0, TickMaxClock)
    \/ TickProcessRaises
    \/ TickEnd

TickSpec == Init /\ [][TickNext]_vars

\* ------------------------------------------------------------------------
\* process_pending_reply await by await, for calls that overlap
\* ------------------------------------------------------------------------
Return(w, result) ==
    /\ pc' = [pc EXCEPT ![w] = "idle"]
    /\ loc' = [loc EXCEPT ![w] = IdleLoc]
    /\ last' = Outcome("process_pending_reply", NoGate, result)

Goto(w, label, locals) ==
    /\ pc' = [pc EXCEPT ![w] = label]
    /\ loc' = [loc EXCEPT ![w] = locals]
    /\ UNCHANGED last

TargetOf(w) == matched_posts[loc[w].post].tweet_id

CallProcessPendingReply(w, key) ==
    /\ pc[w] = "idle"
    /\ Goto(w, "find_campaign", [loc[w] EXCEPT !.key = key])
    /\ UNCHANGED <<dbvars, platform, is_authenticated, now, analysis_runs, schedvars, sidevars>>

ReplyFindCampaign(w) ==
    /\ pc[w] = "find_campaign"
    /\ LET campaign == FindCampaign(ObjectId(loc[w].key))
       IN  IF campaign = NoDoc THEN Return(w, NotFoundResult)
           ELSE IF NotActive(campaign) THEN Return(w, NotActiveResult)
           ELSE Goto(w, "find_pending", [loc[w] EXCEPT !.campaign = campaign])
    /\ UNCHANGED <<dbvars, platform, is_authenticated, now, analysis_runs, schedvars, sidevars>>

ReplyFindPending(w) ==
    /\ pc[w] = "find_pending"
    /\ LET pending_post == FindPendingPost(ObjectId(loc[w].key).id)
       IN  IF pending_post = 0 THEN Return(w, NoPendingResult)
           ELSE Goto(w, "find_existing", [loc[w] EXCEPT !.post = pending_post])
    /\ UNCHANGED <<dbvars, platform, is_authenticated, now, analysis_runs, schedvars, sidevars>>

ReplyFindExisting(w) ==
    /\ pc[w] = "find_existing"
    /\ IF ExistingReply(ObjectId(loc[w].key).id, TargetOf(w))
       THEN Goto(w, "mark_duplicate", loc[w])
       ELSE Goto(w, "generate", loc[w])
    /\ UNCHANGED <<dbvars, platform, is_authenticated, now, analysis_runs, schedvars, sidevars>>

ReplyMarkDuplicate(w) ==
    /\ pc[w] = "mark_duplicate"
    /\ matched_posts' = SetReplyStatus(loc[w].post, "duplicate")
    /\ Return(w, DuplicateResult)
    /\ UNCHANGED <<campaigns, campaign_replies, platform, is_authenticated, now,
                   analysis_runs, schedvars, sidevars>>

ReplyGenerate(w, reply_text) ==
    /\ pc[w] = "generate"
    /\ LET after == AfterGenerate(reply_text, Get(loc[w].campaign, "dry_run", FALSE))
       IN  IF after.next = "return"
           THEN Goto(w, "insert", [loc[w] EXCEPT !.result = after.outcome])
           ELSE Goto(w, "create_tweet", [loc[w] EXCEPT !.reply_text = reply_text])
    /\ UNCHANGED <<dbvars, platform, is_authenticated, now, analysis_runs, schedvars, sidevars>>

ReplyCreateTweet(w, outcome) ==
    /\ pc[w] = "create_tweet"
    /\ LET posted == CreateTweet(ObjectId(loc[w].key).id, TargetOf(w),
                                 loc[w].reply_text, outcome)
       IN  /\ platform' = posted.platform
           /\ Goto(w, "insert", [loc[w] EXCEPT !.result = posted.result])
    /\ UNCHANGED <<dbvars, is_authenticated, now, analysis_runs, schedvars, sidevars>>

ReplyInsert(w) ==
    /\ pc[w] = "insert"
    /\ campaign_replies' =
           Append(campaign_replies,
                  ReplyDoc(ObjectId(loc[w].key).id, TargetOf(w), loc[w].result, now))
    /\ Goto(w, "update_post", loc[w])
    /\ UNCHANGED <<campaigns, matched_posts, platform, is_authenticated, now,
                   analysis_runs, schedvars, sidevars>>

ReplyUpdatePost(w) ==
    /\ pc[w] = "update_post"
    /\ matched_posts' = SetReplyStatus(loc[w].post, ReplyStatusOf(loc[w].result))
    /\ IF CountsAsReply(loc[w].result)
       THEN Goto(w, "update_stats", loc[w])
       ELSE Return(w, loc[w].result)
    /\ UNCHANGED <<campaigns, campaign_replies, platform, is_authenticated, now,
                   analysis_runs, schedvars, sidevars>>

ReplyUpdateStats(w) ==
    /\ pc[w] = "update_stats"
    /\ campaigns' = IncTotalReplies(ObjectId(loc[w].key))
    /\ Return(w, loc[w].result)
    /\ UNCHANGED <<matched_posts, campaign_replies, platform, is_authenticated, now,
                   analysis_runs, schedvars, sidevars>>

\* An active campaign whose analysis runs have left two pending posts, and
\* calls of process_pending_reply that overlap at their awaits.
ActiveCampaignDoc(limit, dry) ==
    SetFields(NewCampaignDoc(limit, dry),
              [status |-> "active", analysis_completed |-> TRUE])

ConcInit ==
    /\ \E dry \in BOOLEAN :
           campaigns = [c \in CampaignIds |->
                           ActiveCampaignDoc(DefaultDailyReplyLimit, dry)]
    /\ \E t \in TweetIds, u \in TweetIds :
           matched_posts = <<NewMatchedPost(1, t), NewMatchedPost(1, u)>>
    /\ campaign_replies = <<>>
    /\ platform = [calls |-> [k \in CampaignIds \X TweetIds |-> 0],
                   created |-> [k \in CampaignIds \X TweetIds |-> 0],
                   next_id |-> 1, answered |-> "none"]
    /\ is_authenticated = TRUE
    /\ now = StartClock
    /\ analysis_runs = <<>>
    /\ pc = [w \in AllWorkers |-> "idle"]
    /\ loc = [w \in AllWorkers |-> IdleLoc]
    /\ tick = NoTick
    /\ scheduler = NewScheduler
    /\ mapper = IdleMapper
    /\ post_filter = IdleFilter
    /\ event_log = NewCampaignLogger
    /\ generation = NoGeneration
    /\ last_tick = StartClock
    /\ last = Outcome("none", NoGate, NoResult)

ConcNext ==
    \E w \in AllWorkers :
        \/ \E key \in StrKeys : CallProcessPendingReply(w, key)
        \/ ReplyFindCampaign(w)
        \/ ReplyFindPending(w)
        \/ ReplyFindExisting(w)
        \/ ReplyMarkDuplicate(w)
        \/ \E reply_text \in ReplyTexts : ReplyGenerate(w, reply_text)
        \/ \E outcome \in CreateTweetOutcomes : ReplyCreateTweet(w, outcome)
        \/ ReplyInsert(w)
        \/ ReplyUpdatePost(w)
        \/ ReplyUpdateStats(w)

ConcSpec == ConcInit /\ [][ConcNext]_vars

\* One process_pending_reply call in flight, await by await, while campaigns
\* are created, started and stopped and analyses run.
ReplySteps(w) ==
    \/ \E key \in StrKeys : CallProcessPendingReply(w, key)
    \/ ReplyFindCampaign(w)
    \/ ReplyFindPending(w)
    \/ ReplyFindExisting(w)
    \/ ReplyMarkDuplicate(w)
    \/ \E reply_text \in ReplyTexts : ReplyGenerate(w, reply_text)
    \/ \E outcome \in CreateTweetOutcomes : ReplyCreateTweet(w, outcome)
    \/ ReplyInsert(w)
    \/ ReplyUpdatePost(w)
    \/ ReplyUpdateStats(w)

CancelNext ==
    \/ Manage
    \/ Analyse
    \/ ReplySteps(1)

CancelSpec == Init /\ [][CancelNext]_vars

\* ------------------------------------------------------------------------
\* A long run of gated reply steps on one campaign with many pending posts
\* ------------------------------------------------------------------------
RateTweetIds == 1..RatePosts
RateMaxClock == StartClock + (RatePosts + RateMaxIdle) * MinDelaySeconds

RateInit ==
    /\ campaigns = [c \in CampaignIds |->
                       ActiveCampaignDoc(DefaultDailyReplyLimit, FALSE)]
    /\ matched_posts = [t \in RateTweetIds |-> NewMatchedPost(1, t)]
    /\ campaign_replies = <<>>
    /\ platform = [calls |-> [k \in CampaignIds \X RateTweetIds |-> 0],
                   created |-> [k \in CampaignIds \X RateTweetIds |-> 0],
                   next_id |-> 1, answered |-> "none"]
    /\ is_authenticated = TRUE
    /\ now = StartClock
    /\ analysis_runs = <<>>
    /\ pc = [w \in AllWorkers |-> "idle"]
    /\ loc = [w \in AllWorkers |-> IdleLoc]
    /\ tick = NoTick
    /\ scheduler = NewScheduler
    /\ mapper = IdleMapper
    /\ post_filter = IdleFilter
    /\ event_log = NewCampaignLogger
    /\ generation = NoGeneration
    /\ last_tick = StartClock
    /\ last = Outcome("none", NoGate, NoResult)

\* slots of MinDelaySeconds gone by without a posted reply
IdleSlots(time) ==
    (time - StartClock) \div MinDelaySeconds - Cardinality(RealPosted(1))

FailedReplies == Len(campaign_replies) - Cardinality(RealPosted(1))

RateNext ==
    \/ /\ IdleSlots(now + MinDelaySeconds) <= RateMaxIdle
       /\ Advance(MinDelaySeconds, RateMaxClock)
    \/ ProcessCampaign(OidKey(1), "text", "ok", 0, RateMaxClock)
    \/ /\ FailedReplies < RateMaxFailed
       /\ ProcessCampaign(OidKey(1), "text", "error", 0, RateMaxClock)

RateSpec == RateInit /\ [][RateNext]_vars

\* One call of find_top_interacted_users, interaction by interaction.
SeedLists ==
    UNION {[1..n -> Handles] : n \in 1..MaxSeeds}

MapperNext ==
    \/ \E seed_users \in SeedLists, top_n \in 1..MaxTopN : MapperCall(seed_users, top_n)
    \/ \E user \in ScreenNames, kind \in {"liker", "retweeter"} :
           MapperScore(user, kind)
    \/ MapperReturn

MapperSpec == Init /\ [][MapperNext]_vars

\* One call of find_matching_posts, user by user.
FilterNext ==
    \/ \E keywords \in KeywordLists, max_posts_per_user \in 1..MaxPostsPerUser,
          use_grok_filter \in BOOLEAN :
           FilterCall(keywords, max_posts_per_user, use_grok_filter)
    \/ \E texts \in TextLists : FilterUser(texts)
    \/ FilterUserRaises
    \/ \E outcome \in {GateRaises, GateFails, GateAnswers(<<>>)} : FilterGate(outcome)
    \/ FilterReturn

FilterSpec == Init /\ [][FilterNext]_vars

\* The AI filter over the keyword matches of a call: one user's posts, all
\* matching the campaign's keyword.
GateKeywords == <<(<<"a">>)>>
GateTextLists == {<<(<<"a", "b">>)>>, <<(<<"a", "b">>), (<<"A">>)>>}

GateLines ==
    {VerdictLine(t, v, r) : t \in 1..2, v \in {"yes", "no"}, r \in {<<>>, <<"good">>}}
        \cup {OtherLine}

GateResponses == UNION {[1..n -> GateLines] : n \in 0..MaxLines}

GateInit ==
    /\ \E texts \in GateTextLists :
           post_filter =
               [IdleFilter EXCEPT
                   !.phase = "users", !.keywords = GateKeywords,
                   !.max_posts_per_user = MaxPostsPerUser,
                   !.use_grok_filter = TRUE,
                   !.user = Len(FilterUsernames) + 1,
                   !.fetched = <<TweetsOf(1, texts), <<>>>>,
                   !.matching_posts =
                       UserMatches(FilterUsernames[1], TweetsOf(1, texts),
                                   GateKeywords, MaxPostsPerUser, <<>>)]
    /\ campaigns = [c \in CampaignIds |-> NoDoc]
    /\ matched_posts = <<>>
    /\ campaign_replies = <<>>
    /\ platform = [calls |-> [k \in CampaignIds \X TweetIds |-> 0],
                   created |-> [k \in CampaignIds \X TweetIds |-> 0],
                   next_id |-> 1, answered |-> "none"]
    /\ last_tick = StartClock
    /\ is_authenticated = TRUE
    /\ now = StartClock
    /\ analysis_runs = <<>>
    /\ pc = [w \in AllWorkers |-> "idle"]
    /\ loc = [w \in AllWorkers |-> IdleLoc]
    /\ tick = NoTick
    /\ scheduler = NewScheduler
    /\ mapper = IdleMapper
    /\ event_log = NewCampaignLogger
    /\ generation = NoGeneration
    /\ last = Outcome("none", NoGate, NoResult)

GateNext ==
    \E outcome \in {GateRaises, GateFails} \cup {GateAnswers(lines) : lines \in GateResponses} :
        FilterGate(outcome)

GateSpec == GateInit /\ [][GateNext]_vars

\* The campaign logger with its subscribers: every order of subscribe,
\* unsubscribe and log, with any of the puts of a log failing.
LogNext ==
    \/ \E c \in LogCampaigns : Subscribe(c)
    \/ \E c \in LogCampaigns, q \in 1..MaxQueues : Unsubscribe(c, q)
    \/ \E c \in LogCampaigns, failing \in SUBSET (1..MaxQueues) :
           Log(c, failing, MaxLogged)

LogSpec == Init /\ [][LogNext]_vars

\* The history of the logger over more entries than it keeps.
HistoryNext == \E c \in LogCampaigns : Log(c, {}, MaxPublished)

HistorySpec == Init /\ [][HistoryNext]_vars

\* Calls of generate_reply for campaigns of every ai_provider.
GenerateNext ==
    \E provider \in Providers, gate \in GateAnswerOutcomes, ai \in AiOutcomes :
        GenerateReply(provider, gate, ai)

GenerateSpec == Init /\ [][GenerateNext]_vars

\* Calls of post_reply for one tweet, for campaigns of every ai_provider,
\* with and without dry_run, the platform answering in every way.
ReplierGateOutcomes ==
    {o \in GateAnswerOutcomes : o.kind = "raises" \/ o.answer \in AnswerWords}

ReplierNext ==
    \E provider \in Providers, gate \in ReplierGateOutcomes, ai \in AiOutcomes,
       dry_run \in BOOLEAN, outcome \in CreateTweetOutcomes :
        PostReplyCall(1, 1, provider, gate, ai, dry_run, outcome)

ReplierSpec == Init /\ [][ReplierNext]_vars

\* The limiter asked about a campaign second by second after its last reply.
\* The ledgers the campaign may have by then: none, one real reply just
\* posted, a real reply followed by a dry run and a failure, and the replies
\* of a full hour and of a full day, posted MinDelaySeconds apart.
PostedReplies(n, dry_run, until) ==
    [i \in 1..n |->
        ReplyDoc(1, 1, IF dry_run THEN DryRunOutcome("text") ELSE PostedOutcome("text", i),
                 until - (n - i) * MinDelaySeconds)]

WaitLedgers ==
    {<<>>,
     PostedReplies(1, FALSE, StartClock),
     PostedReplies(1, FALSE, StartClock - ClockStep)
         \o PostedReplies(1, TRUE, StartClock)
         \o <<ReplyDoc(1, 1, FailedOutcome("text", "error"), StartClock)>>,
     PostedReplies(RepliesPerHour, FALSE, StartClock),
     PostedReplies(DefaultMaxPerDay, FALSE, StartClock)}

WaitMaxClock == StartClock + MinDelaySeconds + MaxWaitOver

WaitInit ==
    /\ campaigns \in {[c \in CampaignIds |-> NoDoc],
                      [c \in CampaignIds |->
                          ActiveCampaignDoc(DefaultDailyReplyLimit, FALSE)]}
    /\ matched_posts = <<>>
    /\ campaign_replies \in WaitLedgers
    /\ platform = [calls |-> [k \in CampaignIds \X TweetIds |-> 0],
                   created |-> [k \in CampaignIds \X TweetIds |-> 0],
                   next_id |-> 1, answered |-> "none"]
    /\ is_authenticated = TRUE
    /\ now = StartClock
    /\ analysis_runs = <<>>
    /\ pc = [w \in AllWorkers |-> "idle"]
    /\ loc = [w \in AllWorkers |-> IdleLoc]
    /\ tick = NoTick
    /\ scheduler = NewScheduler
    /\ mapper = IdleMapper
    /\ post_filter = IdleFilter
    /\ event_log = NewCampaignLogger
    /\ generation = NoGeneration
    /\ last_tick = StartClock
    /\ last = Outcome("none", NoGate, NoResult)

WaitNext ==
    \/ Advance(1, WaitMaxClock)
    \/ \E key \in Keys, fraction \in BOOLEAN, raises \in BOOLEAN :
           CanPostReplyCall(key, fraction, raises)
    \/ \E key \in Keys, fraction \in BOOLEAN, raises \in BOOLEAN :
           GetWaitTime(key, fraction, raises)

WaitSpec == WaitInit /\ [][WaitNext]_vars

\* An active campaign with pending posts under the running interval job: the
\* clock goes from one firing to the next, every run is carried through, and
\* nobody stops the campaign or the scheduler.  The job fires for ever: when
\* the clock has passed MaxLiveTicks firings, every time of the state is
\* written a day earlier, which no check of the limiter can tell (they compare
\* times with each other and with midnight), and a reply older than two days
\* is written as two days old.
LiveMaxClock == StartClock + MaxLiveTicks * TickIntervalSeconds

LivePending ==
    {<<NewMatchedPost(1, t)>> : t \in TweetIds}
        \cup {<<NewMatchedPost(1, p[1]), NewMatchedPost(1, p[2])>> :
                 p \in {q \in TweetIds \X TweetIds : q[1] # q[2]}}

LiveInit ==
    /\ \E dry \in BOOLEAN :
          campaigns = [c \in CampaignIds |->
                          ActiveCampaignDoc(DefaultDailyReplyLimit, dry)]
    /\ matched_posts \in LivePending
    /\ campaign_replies = <<>>
    /\ platform = [calls |-> [k \in CampaignIds \X TweetIds |-> 0],
                   created |-> [k \in CampaignIds \X TweetIds |-> 0],
                   next_id |-> 1, answered |-> "none"]
    /\ is_authenticated \in BOOLEAN
    /\ now = StartClock
    /\ analysis_runs = <<>>
    /\ pc = [w \in AllWorkers |-> "idle"]
    /\ loc = [w \in AllWorkers |-> IdleLoc]
    /\ tick = NoTick
    /\ scheduler = [NewScheduler EXCEPT !.is_running = TRUE, !.jobs = 1]
    /\ mapper = IdleMapper
    /\ post_filter = IdleFilter
    /\ event_log = NewCampaignLogger
    /\ generation = NoGeneration
    /\ last_tick = StartClock
    /\ last = Outcome("none", NoGate, NoResult)

\* the time to the next firing goes by
LiveWait ==
    /\ ~tick.running
    /\ ~TickDue
    /\ Advance(TickIntervalSeconds, LiveMaxClock)

OldestTime == 0 - 2 * DaySeconds

DayEarlier(time) ==
    IF time = NoTime THEN NoTime
    ELSE IF time - DaySeconds < OldestTime THEN OldestTime
    ELSE time - DaySeconds

LiveNewDay ==
    /\ ~tick.running
    /\ ~TickDue
    /\ now + TickIntervalSeconds > LiveMaxClock
    /\ now' = DayEarlier(now)
    /\ last_tick' = DayEarlier(last_tick)
    /\ campaign_replies' =
           [i \in DOMAIN campaign_replies |->
               [campaign_replies[i] EXCEPT !.posted_at = DayEarlier(@)]]
    /\ UNCHANGED <<campaigns, matched_posts, platform, is_authenticated,
                   analysis_runs, procvars, tick, scheduler, sidevars, last>>

LiveNext ==
    \/ LiveWait
    \/ LiveNewDay
    \/ TickStart
    \/ \E reply_text \in ReplyTexts, outcome \in CreateTweetOutcomes :
           TickProcess(reply_text, outcome, 0, LiveMaxClock)
    \/ TickEnd

\* the timer fires and the event loop runs what is ready
LiveSpec == LiveInit /\ [][LiveNext]_vars /\ WF_vars(LiveNext)

\* A store with two campaigns, each with a pending post, and the interval
\* trigger running over them.
FleetIds == {1, 2}
FleetStatuses == {"active", "paused"}

FleetInit ==
    /\ \E status \in [FleetIds -> FleetStatuses] :
           campaigns = [c \in FleetIds |->
               [ActiveCampaignDoc(DefaultDailyReplyLimit, FALSE)
                    EXCEPT !.status = status[c]]]
    /\ matched_posts = <<NewMatchedPost(1, 1), NewMatchedPost(2, 2)>>
    /\ campaign_replies = <<>>
    /\ platform = [calls |-> [k \in FleetIds \X TweetIds |-> 0],
                   created |-> [k \in FleetIds \X TweetIds |-> 0],
                   next_id |-> 1, answered |-> "none"]
    /\ is_authenticated = TRUE
    /\ now = StartClock
    /\ analysis_runs = <<>>
    /\ pc = [w \in AllWorkers |-> "idle"]
    /\ loc = [w \in AllWorkers |-> IdleLoc]
    /\ tick = NoTick
    /\ scheduler = NewScheduler
    /\ mapper = IdleMapper
    /\ post_filter = IdleFilter
    /\ event_log = NewCampaignLogger
    /\ generation = NoGeneration
    /\ last_tick = StartClock
    /\ last = Outcome("none", NoGate, NoResult)

FleetNext ==
    \/ \E c \in FleetIds : StopCampaign(c)
    \/ Advance(TickIntervalSeconds, TickMaxClock)
    \/ SchedulerStart
    \/ SchedulerStop
    \/ TickStart
    \/ TickSkipped
    \/ \E reply_text \in ReplyTexts, outcome \in CreateTweetOutcomes :
           TickProcess(reply_text, outcome, 0, TickMaxClock)
    \/ TickProcessRaises
    \/ TickEnd

FleetSpec == FleetInit /\ [][FleetNext]_vars


\* ========================================================================
\* Properties
\* ========================================================================

\* The vocabulary of the properties, written over the stored documents only.
Exists(c) == campaigns[c] # NoDoc

IsPending(i) == matched_posts[i].reply_status = "pending"

\* the pending post a reply step on campaign c selects (0: none)
FirstPending(c) ==
    LET P == {i \in DOMAIN matched_posts :
                 matched_posts[i].campaign_id = c /\ IsPending(i)}
    IN  IF P = {} THEN 0 ELSE CHOOSE i \in P : \A j \in P : i <= j

HasPostedReply(c, t) ==
    \E i \in DOMAIN campaign_replies :
        /\ campaign_replies[i].campaign_id = c
        /\ campaign_replies[i].target_tweet_id = t
        /\ campaign_replies[i].status = "posted"

SelectsPost(c) ==
    /\ Exists(c)
    /\ campaigns[c].status = "active"
    /\ FirstPending(c) # 0

SelectsDuplicate(c) ==
    /\ SelectsPost(c)
    /\ HasPostedReply(c, matched_posts[FirstPending(c)].tweet_id)

ReachesAutoReplier(c) ==
    /\ SelectsPost(c)
    /\ ~HasPostedReply(c, matched_posts[FirstPending(c)].tweet_id)

IsReplyStep == last'.op = "process_pending_reply"

OtherPostsUnchanged(i) ==
    /\ Len(matched_posts') = Len(matched_posts)
    /\ \A j \in DOMAIN matched_posts : j # i => matched_posts'[j] = matched_posts[j]

RealPostedCount(c) ==
    Cardinality({i \in DOMAIN campaign_replies :
        /\ campaign_replies[i].campaign_id = c
        /\ campaign_replies[i].status = "posted"
        /\ ~campaign_replies[i].dry_run})

RealSuccess(result) ==
    /\ result.success
    /\ ~(IF "dry_run" \in DOMAIN result THEN result.dry_run ELSE FALSE)

\* ------------------------------------------------------------------------
\* C7.  When process_pending_reply selects a pending post whose tweet already
\* has a posted reply of the campaign, the post becomes `duplicate`, no reply
\* is created, the platform is not called, the campaign document (and so
\* total_replies) is untouched and the call returns the duplicate result; a
\* post marked duplicate stays duplicate, so it is never selected again.
\* ------------------------------------------------------------------------
DuplicateStep(c) ==
    LET i == FirstPending(c)
    IN  /\ matched_posts'[i].reply_status = "duplicate"
        /\ OtherPostsUnchanged(i)
        /\ campaign_replies' = campaign_replies
        /\ platform' = platform
        /\ campaigns' = campaigns
        /\ last'.result = [success |-> FALSE, reason |-> "Duplicate tweet"]

DuplicateStays ==
    \A i \in DOMAIN matched_posts :
        matched_posts[i].reply_status = "duplicate" =>
            /\ i \in DOMAIN matched_posts'
            /\ matched_posts'[i].reply_status = "duplicate"
            /\ \A c \in CampaignIds : FirstPending(c)' # i

C7_DuplicatePath ==
    [][/\ \A c \in CampaignIds : (IsReplyStep /\ SelectsDuplicate(c)) => DuplicateStep(c)
       /\ DuplicateStays]_vars

C7_Witness ==
    /\ last.op = "process_pending_reply"
    /\ last.result = [success |-> FALSE, reason |-> "Duplicate tweet"]
    /\ \E i \in DOMAIN matched_posts : matched_posts[i].reply_status = "duplicate"
    /\ \E i \in DOMAIN campaign_replies : campaign_replies[i].status = "posted"

\* ------------------------------------------------------------------------
\* C8.  A process_pending_reply call that reaches the Auto Replier appends
\* exactly one reply for the selected post, `posted` iff the outcome succeeded
\* and `failed` otherwise, with the outcome's dry-run flag; the selected post
\* takes the same status; the replies stored before are left as they were.
\* ------------------------------------------------------------------------
LedgerKept ==
    /\ Len(campaign_replies') >= Len(campaign_replies)
    /\ \A i \in DOMAIN campaign_replies : campaign_replies'[i] = campaign_replies[i]

RecordsOutcome(c) ==
    LET i == FirstPending(c)
        result == last'.result
        status == IF result.success THEN "posted" ELSE "failed"
    IN  /\ Len(campaign_replies') = Len(campaign_replies) + 1
        /\ LET reply == campaign_replies'[Len(campaign_replies')]
           IN  /\ reply.campaign_id = c
               /\ reply.target_tweet_id = matched_posts[i].tweet_id
               /\ reply.status = status
               /\ reply.dry_run =
                      (IF "dry_run" \in DOMAIN result THEN result.dry_run ELSE FALSE)
        /\ matched_posts'[i].reply_status = status
        /\ OtherPostsUnchanged(i)

C8_OneReplyPerAttempt ==
    [][/\ LedgerKept
       /\ \A c \in CampaignIds :
              (IsReplyStep /\ ReachesAutoReplier(c)) => RecordsOutcome(c)]_vars

C8_Witness ==
    /\ last.op = "process_pending_reply"
    /\ Len(campaign_replies) = 2
    /\ campaign_replies[1].status = "failed"
    /\ campaign_replies[2].status = "posted"
    /\ \A i \in DOMAIN matched_posts : ~IsPending(i)

\* ------------------------------------------------------------------------
\* C9.  A step changes total_replies only by adding one, and it adds one
\* exactly when it is a process_pending_reply call whose outcome is a success
\* with dry_run false; so total_replies always equals the number of posted,
\* non-dry-run replies of the campaign.
\* ------------------------------------------------------------------------
CountsOnlyRealSuccess(c) ==
    IF IsReplyStep /\ ReachesAutoReplier(c) /\ RealSuccess(last'.result)
    THEN campaigns'[c].total_replies = campaigns[c].total_replies + 1
    ELSE campaigns'[c].total_replies = campaigns[c].total_replies

C9_TotalReplies ==
    /\ [](\A c \in CampaignIds :
              Exists(c) => campaigns[c].total_replies = RealPostedCount(c))
    /\ [][\A c \in CampaignIds :
              (Exists(c) /\ Exists(c)') => CountsOnlyRealSuccess(c)]_vars

C9_Witness ==
    /\ last.op = "process_pending_reply"
    /\ RealSuccess(last.result)
    /\ \E c \in CampaignIds : Exists(c) /\ campaigns[c].total_replies = 1
    /\ \E i \in DOMAIN campaign_replies : campaign_replies[i].status = "failed"

\* ------------------------------------------------------------------------
\* C10.  post_reply with dry_run true and a generated text returns success
\* with dry_run true and no tweet id and leaves the platform untouched,
\* whatever the platform would have answered; the replies it leaves in the
\* ledger are posted, dry-run and without a reply tweet.
\* ------------------------------------------------------------------------
C10_DryRunPostsNothing ==
    /\ \A c \in CampaignIds, t \in TweetIds, outcome \in CreateTweetOutcomes,
          reply_text \in ReplyTexts \ {NoText} :
           LET posted == PostReply(c, t, reply_text, TRUE, outcome)
           IN  /\ posted.result.success
               /\ "dry_run" \in DOMAIN posted.result /\ posted.result.dry_run
               /\ "tweet_id" \in DOMAIN posted.result
               /\ posted.result.tweet_id = NoTweet
               /\ posted.platform = platform
    /\ \A i \in DOMAIN campaign_replies :
           campaign_replies[i].dry_run =>
               /\ campaign_replies[i].status = "posted"
               /\ campaign_replies[i].reply_tweet_id = NoTweet

C10_Witness ==
    /\ last.op = "process_pending_reply"
    /\ last.result.success
    /\ "dry_run" \in DOMAIN last.result /\ last.result.dry_run
    /\ \E i \in DOMAIN campaign_replies : campaign_replies[i].dry_run
    /\ \A k \in DOMAIN platform.calls : platform.calls[k] = 0
    /\ is_authenticated

\* ------------------------------------------------------------------------
\* C1.  The posted, non-dry-run replies of a campaign whose posted_at lies in
\* any 24-hour window never number more than the daily_reply_limit the
\* campaign was created with.
\* ------------------------------------------------------------------------
RealPostedTimes(c) ==
    {campaign_replies[i].posted_at : i \in
        {j \in DOMAIN campaign_replies :
            /\ campaign_replies[j].campaign_id = c
            /\ campaign_replies[j].status = "posted"
            /\ ~campaign_replies[j].dry_run}}

\* real replies of c stamped in the window of `length` seconds ending at `end`
InWindow(c, end, length) ==
    Cardinality({i \in DOMAIN campaign_replies :
        /\ campaign_replies[i].campaign_id = c
        /\ campaign_replies[i].status = "posted"
        /\ ~campaign_replies[i].dry_run
        /\ campaign_replies[i].posted_at > end - length
        /\ campaign_replies[i].posted_at <= end})

RealPostedToday(c) ==
    Cardinality({i \in DOMAIN campaign_replies :
        /\ campaign_replies[i].campaign_id = c
        /\ campaign_replies[i].status = "posted"
        /\ ~campaign_replies[i].dry_run
        /\ campaign_replies[i].posted_at >= now - (now % DaySeconds)})

C2_DailyGate ==
    \A c \in CampaignIds :
        Exists(c) =>
            ((CanPostReply(StrKey(c)).reason = "Daily limit reached")
                <=> (RealPostedToday(c) >= campaigns[c].daily_reply_limit))

\* ------------------------------------------------------------------------
\* C3.  A tick that comes to an active, non-dry-run campaign with daily limit
\* 1, two pending posts and no reply yet creates exactly one reply, posted
\* unless generation or posting failed; a tick that comes to such a campaign
\* with a real reply posted today is denied by the rate check and creates none.
\* ------------------------------------------------------------------------
PendingCount(c) ==
    Cardinality({i \in DOMAIN matched_posts :
        matched_posts[i].campaign_id = c /\ IsPending(i)})

TickComesTo(c) ==
    /\ tick.running
    /\ tick.queue # <<>>
    /\ Head(tick.queue).id = c
    /\ tick'.queue = Tail(tick.queue)
    /\ last'.op = "process_campaign"
    /\ last'.result # [kind |-> "exception"]
    /\ Exists(c)
    /\ campaigns[c].status = "active"
    /\ ~campaigns[c].dry_run
    /\ campaigns[c].daily_reply_limit = 1
    /\ is_authenticated

LimiterDenials ==
    {"Daily limit reached", "Hourly limit reached", "Too soon since last reply"}

FirstTick(c) ==
    (TickComesTo(c) /\ PendingCount(c) = 2 /\ campaign_replies = <<>>) =>
        /\ Len(campaign_replies') = 1
        /\ campaign_replies'[1].status = "posted" \/ ~last'.result.success

SecondTick(c) ==
    (TickComesTo(c) /\ PendingCount(c) >= 1 /\ RealPostedToday(c) = 1) =>
        /\ last'.gate.reason \in LimiterDenials
        /\ campaign_replies' = campaign_replies

C3_TwoTicks == [][\A c \in CampaignIds : FirstTick(c) /\ SecondTick(c)]_vars

\* ------------------------------------------------------------------------
\* C4.  The posted, non-dry-run replies of a campaign whose posted_at lies in
\* any 60-minute window (both ends included) never number more than 30.
\* ------------------------------------------------------------------------
C4_HourlyWindow ==
    \A c \in CampaignIds :
        \A end \in RealPostedTimes(c) :
            Cardinality({t \in RealPostedTimes(c) :
                            t >= end - HourSeconds /\ t <= end}) <= RepliesPerHour

C4_Witness ==
    /\ last.op = "process_campaign"
    /\ last.gate.reason = "Hourly limit reached"
    /\ \E end \in RealPostedTimes(1) :
           Cardinality({t \in RealPostedTimes(1) :
                           t >= end - HourSeconds /\ t <= end}) = RepliesPerHour

\* ------------------------------------------------------------------------
\* C5.  Two posted, non-dry-run replies of a campaign are stamped at least
\* 120 s apart, when every reply step runs behind the rate check.
\* ------------------------------------------------------------------------
C5_MinDelay ==
    \A c \in CampaignIds :
        \A i \in DOMAIN campaign_replies, j \in DOMAIN campaign_replies :
            (/\ i < j
             /\ campaign_replies[i].campaign_id = c
             /\ campaign_replies[j].campaign_id = c
             /\ campaign_replies[i].status = "posted" /\ ~campaign_replies[i].dry_run
             /\ campaign_replies[j].status = "posted" /\ ~campaign_replies[j].dry_run)
            => campaign_replies[j].posted_at - campaign_replies[i].posted_at
                   >= MinDelaySeconds

C5_Witness ==
    /\ Len(campaign_replies) = 2
    /\ campaign_replies[1].status = "posted" /\ ~campaign_replies[1].dry_run
    /\ campaign_replies[2].status = "posted" /\ ~campaign_replies[2].dry_run
    /\ campaign_replies[2].posted_at - campaign_replies[1].posted_at = MinDelaySeconds
    /\ last.op = "process_campaign"
    /\ last.gate.reason = "Too soon since last reply"

\* ------------------------------------------------------------------------
\* C6.  However calls of process_pending_reply on one campaign overlap, no
\* pending post is held by two calls at once, and for each campaign and target
\* tweet the platform creates at most one reply tweet and the ledger holds at
\* most one posted reply.
\* ------------------------------------------------------------------------
C6_AsIfSerialized ==
    /\ \A w \in AllWorkers, v \in AllWorkers :
           (w # v /\ loc[w].post # 0) => loc[w].post # loc[v].post
    /\ \A k \in DOMAIN platform.created : platform.created[k] <= 1
    /\ \A c \in CampaignIds, t \in TweetIds :
           Cardinality({i \in DOMAIN campaign_replies :
               /\ campaign_replies[i].campaign_id = c
               /\ campaign_replies[i].target_tweet_id = t
               /\ campaign_replies[i].status = "posted"}) <= 1

\* ------------------------------------------------------------------------
\* C11.  A campaign's status changes only from draft to active, from active
\* to paused and from paused to active, and only in start_campaign and
\* stop_campaign.
\* ------------------------------------------------------------------------
StatusMoves == {<<"draft", "active">>, <<"active", "paused">>, <<"paused", "active">>}

C11_StatusTransitions ==
    [][\A c \in CampaignIds :
          (Exists(c) /\ Exists(c)' /\ campaigns'[c].status # campaigns[c].status) =>
              /\ <<campaigns[c].status, campaigns'[c].status>> \in StatusMoves
              /\ last'.op \in {"start_campaign", "stop_campaign"}]_vars

\* ------------------------------------------------------------------------
\* C12.  start_campaign without an authenticated session returns a failure,
\* changes no campaign and starts no analysis.
\* ------------------------------------------------------------------------
C12_StartNeedsSession ==
    [][(last'.op = "start_campaign" /\ ~is_authenticated) =>
          /\ ~last'.result.success
          /\ campaigns' = campaigns
          /\ analysis_runs' = analysis_runs
          /\ matched_posts' = matched_posts]_vars

C12_Witness ==
    /\ last.op = "start_campaign"
    /\ ~last.result.success
    /\ ~is_authenticated
    /\ analysis_runs = <<>>
    /\ \E c \in CampaignIds : Exists(c) /\ campaigns[c].status = "draft"

ChecksStatus(w) == pc[w] = "find_campaign" /\ pc'[w] # "find_campaign"

PastStatusCheck(w) == pc[w] \notin {"idle", "find_campaign"}

RejectsInactive(w) ==
    LET c == loc[w].key.id
    IN  (ChecksStatus(w) /\ Exists(c) /\ campaigns[c].status # "active") =>
            /\ pc'[w] = "idle"
            /\ last'.op = "process_pending_reply"
            /\ ~last'.result.success
            /\ campaigns' = campaigns
            /\ matched_posts' = matched_posts
            /\ campaign_replies' = campaign_replies
            /\ platform' = platform

NotInterrupted(w) ==
    /\ (pc[w] = "create_tweet" /\ pc'[w] # pc[w]) => pc'[w] = "insert"
    /\ (pc[w] = "insert" /\ pc'[w] # pc[w]) =>
           /\ Len(campaign_replies') = Len(campaign_replies) + 1
           /\ pc'[w] = "update_post"
    /\ (pc[w] = "update_post" /\ pc'[w] # pc[w]) =>
           matched_posts'[loc[w].post].reply_status \in {"posted", "failed"}

C14_InactiveRejected ==
    /\ [](\A w \in AllWorkers :
              PastStatusCheck(w) =>
                  \E c \in CampaignIds :
                      /\ loc[w].key.id = c
                      /\ loc[w].campaign.status = "active")
    /\ [][\A w \in AllWorkers : RejectsInactive(w) /\ NotInterrupted(w)]_vars

C14_Witness ==
    /\ last.op = "stop_campaign"
    /\ pc[1] \in {"generate", "create_tweet", "insert"}
    /\ campaigns[loc[1].key.id].status = "paused"

\* ------------------------------------------------------------------------
\* C18.  When an analysis run fails on an error, the run publishes an event
\* of level error on the campaign's log and does not set analysis_completed;
\* the run ends without a retry.
\* ------------------------------------------------------------------------
AnalysisErrored(result) ==
    /\ "success" \in DOMAIN result
    /\ ~result.success
    /\ result.error # "Campaign not found"

C18_FailureObservable ==
    [][(last'.op = "analyze_campaign" /\ AnalysisErrored(last'.result)) =>
          /\ \E i \in DOMAIN last'.result.events : last'.result.events[i] = "error"
          /\ campaigns' = campaigns
          /\ Len(analysis_runs') = Len(analysis_runs) - 1]_vars

\* ------------------------------------------------------------------------
\* C15.  A tick takes up exactly the campaigns that are active when it fires,
\* each once; for each of them that is still active when its turn comes and
\* whose processing raises nothing, the rate check is evaluated, and the reply
\* step is invoked if and only if the rate check allows.
\* ------------------------------------------------------------------------
TickFires == ~tick.running /\ tick'.running

TakesUpActiveOnly ==
    /\ \A i \in DOMAIN tick'.queue :
           /\ Exists(tick'.queue[i].id)
           /\ campaigns[tick'.queue[i].id].status = "active"
    /\ \A c \in DOMAIN campaigns :
           (Exists(c) /\ campaigns[c].status = "active") =>
               Cardinality({i \in DOMAIN tick'.queue : tick'.queue[i].id = c}) = 1

TickTurnOf(c) ==
    /\ tick.running
    /\ tick.queue # <<>>
    /\ Head(tick.queue).id = c
    /\ last'.op = "process_campaign"
    /\ last'.result # [kind |-> "exception"]
    /\ Exists(c)
    /\ campaigns[c].status = "active"

GateEvaluated == last'.gate.reason \in LimiterDenials \cup {"OK"}

ReplyStepInvoked == last'.result # [kind |-> "none"]

C15_TickProcessesActive ==
    [][/\ TickFires => TakesUpActiveOnly
       /\ \A c \in DOMAIN campaigns :
              TickTurnOf(c) =>
                  /\ GateEvaluated
                  /\ ReplyStepInvoked <=> last'.gate.can_post]_vars

CampaignStep ==
    tick.running /\ tick.queue # <<>> /\ last'.op = "process_campaign"

RunEnds ==
    tick.running /\ ~tick'.running /\ last'.op = "process_all_campaigns"

C16_OthersStillAttempted ==
    [][/\ CampaignStep => (tick'.running /\ tick'.queue = Tail(tick.queue))
       /\ RunEnds => tick.queue = <<>>]_vars

C16_Witness ==
    /\ last.op = "process_campaign"
    /\ last.result = [kind |-> "exception"]
    /\ tick.running
    /\ Len(tick.queue) = 1
    /\ tick.queue[1].id = 2
    /\ campaigns[1].status = "active"
    /\ campaigns[2].status = "active"

\* ------------------------------------------------------------------------
\* C19.  No entry returned by find_top_interacted_users carries the username
\* of a seed user, whether the seed was given with a leading "@" or without.
\* ------------------------------------------------------------------------
WithoutAt(seed) == IF seed # <<>> /\ Head(seed) = "@" THEN Tail(seed) ELSE seed

SeedNames == {WithoutAt(mapper.seed_users[j]) : j \in DOMAIN mapper.seed_users}

FetchedUsers == {mapper.fetched[k].username : k \in DOMAIN mapper.fetched}

Returned == {mapper.results[i].username : i \in DOMAIN mapper.results}

C19_NoSeedReturned ==
    mapper.phase = "done" =>
        \A i \in DOMAIN mapper.results, j \in DOMAIN mapper.seed_users :
            /\ mapper.results[i].username # mapper.seed_users[j]
            /\ mapper.results[i].username # WithoutAt(mapper.seed_users[j])

C19_Witness ==
    /\ mapper.phase = "done"
    /\ mapper.results # <<>>
    /\ \E j \in DOMAIN mapper.seed_users :
           /\ Head(mapper.seed_users[j]) = "@"
           /\ WithoutAt(mapper.seed_users[j]) \in FetchedUsers
    /\ \E j \in DOMAIN mapper.seed_users :
           /\ Head(mapper.seed_users[j]) # "@"
           /\ mapper.seed_users[j] \in FetchedUsers

\* ------------------------------------------------------------------------
\* C20.  The returned list is in non-increasing order of score; entries of
\* equal score stand in the order in which their usernames were first met;
\* the list has min(top_n, number of scored users that are no seeds) entries,
\* and no scored non-seed user left out ranks above an entry of the list.
\* ------------------------------------------------------------------------
FirstMet(u) == SetMin({k \in DOMAIN mapper.fetched : mapper.fetched[k].username = u})

Met(u, kind) ==
    Cardinality({k \in DOMAIN mapper.fetched :
        mapper.fetched[k].username = u /\ mapper.fetched[k].kind = kind})

Total(u) == Met(u, "liker") + 2 * Met(u, "retweeter")

NonSeedScored == FetchedUsers \ SeedNames

RanksAbove(u, score, v, other) ==
    score > other \/ (score = other /\ FirstMet(u) < FirstMet(v))

C20_SortedTopN ==
    mapper.phase = "done" =>
        LET results == mapper.results
        IN  /\ \A i \in DOMAIN results, j \in DOMAIN results :
                   i < j => RanksAbove(results[i].username, results[i].interaction_score,
                                       results[j].username, results[j].interaction_score)
            /\ Len(results) = (IF mapper.top_n < Cardinality(NonSeedScored)
                               THEN mapper.top_n ELSE Cardinality(NonSeedScored))
            /\ Returned \subseteq NonSeedScored
            /\ \A u \in NonSeedScored \ Returned, i \in DOMAIN results :
                   RanksAbove(results[i].username, results[i].interaction_score,
                              u, Total(u))

C20_Witness ==
    /\ mapper.phase = "done"
    /\ mapper.top_n < Cardinality(NonSeedScored)
    /\ Len(mapper.results) = mapper.top_n
    /\ SeedNames \cap FetchedUsers # {}
    /\ \E u \in NonSeedScored \ Returned :
           Total(u) = mapper.results[Len(mapper.results)].interaction_score

\* ------------------------------------------------------------------------
\* C21.  The score kept and returned for a username is the number of its
\* likes plus twice the number of its retweets over the fetched interactions;
\* for seeds ["@a"], top_n 1 and one post liked by b and retweeted by c the
\* result is exactly [c with score 2].
\* ------------------------------------------------------------------------
IsExample ==
    /\ mapper.seed_users = <<(<<"@", "a">>)>>
    /\ mapper.top_n = 1
    /\ mapper.fetched = <<[username |-> <<"b">>, kind |-> "liker"],
                          [username |-> <<"c">>, kind |-> "retweeter"]>>

SameLetter(x, y) ==
    x = y \/ {x, y} = {"a", "A"} \/ {x, y} = {"b", "B"}

OccursIn(keyword, text) ==
    \E offset \in 0..(Len(text) - Len(keyword)) :
        \A i \in 1..Len(keyword) : SameLetter(keyword[i], text[offset + i])

OccurringKeywords(text) ==
    {k \in DOMAIN post_filter.keywords : OccursIn(post_filter.keywords[k], text)}

HasKeyword(tweet) == OccurringKeywords(tweet.text) # {}

FetchedTweets(u) == post_filter.fetched[u]

AmongFirstMatches(u, k) ==
    /\ HasKeyword(FetchedTweets(u)[k])
    /\ Cardinality({j \in 1..(k - 1) : HasKeyword(FetchedTweets(u)[j])})
           < post_filter.max_posts_per_user

IsResultOf(r, u, k) ==
    /\ r.tweet_id = FetchedTweets(u)[k].tweet_id
    /\ r.username = FilterUsernames[u]
    /\ r.text = FetchedTweets(u)[k].text

WithoutGate == post_filter.phase = "done" /\ post_filter.gate.kind = "none"

C22_FirstKeywordMatches ==
    WithoutGate =>
        LET results == post_filter.results
        IN  /\ \A u \in DOMAIN post_filter.fetched : \A k \in DOMAIN FetchedTweets(u) :
                   AmongFirstMatches(u, k) <=>
                       \E i \in DOMAIN results : IsResultOf(results[i], u, k)
            /\ \A i \in DOMAIN results :
                   \E u \in DOMAIN post_filter.fetched : \E k \in DOMAIN FetchedTweets(u) :
                       IsResultOf(results[i], u, k) /\ HasKeyword(FetchedTweets(u)[k])
            /\ \A i \in DOMAIN results, j \in DOMAIN results :
                   i < j => results[i].tweet_id < results[j].tweet_id

C22_Witness ==
    /\ WithoutGate
    /\ post_filter.max_posts_per_user = 1
    /\ Len(post_filter.results) = 2
    /\ post_filter.results[1].text = <<"A">>
    /\ post_filter.keywords = <<(<<"a">>)>>
    /\ \E k \in DOMAIN FetchedTweets(1) :
           HasKeyword(FetchedTweets(1)[k]) /\ ~AmongFirstMatches(1, k)
    /\ \E k \in DOMAIN FetchedTweets(2) : ~HasKeyword(FetchedTweets(2)[k])

\* ------------------------------------------------------------------------
\* C23.  The matched_keywords of every returned record are exactly the
\* campaign keywords that occur in the post's text, letter case ignored.
\* ------------------------------------------------------------------------
ListedKeywords(r) == {r.matched_keywords[i] : i \in DOMAIN r.matched_keywords}

C23_MatchedKeywordsExact ==
    post_filter.phase = "done" =>
        \A i \in DOMAIN post_filter.results :
            ListedKeywords(post_filter.results[i]) =
                {post_filter.keywords[k] :
                    k \in OccurringKeywords(post_filter.results[i].text)}

C23_Witness ==
    /\ post_filter.phase = "done"
    /\ Len(post_filter.keywords) = 2
    /\ \E i \in DOMAIN post_filter.results :
           /\ Len(post_filter.results[i].matched_keywords) = 2
           /\ ~IsSubstring(post_filter.results[i].matched_keywords[1],
                           post_filter.results[i].text)
    /\ \E j \in DOMAIN post_filter.results :
           Len(post_filter.results[j].matched_keywords) = 1

\* ------------------------------------------------------------------------
\* C24.  With the AI gate enabled, when the AI call raises or reports failure,
\* find_matching_posts returns the keyword matches unchanged: the same posts
\* in the same order.
\* ------------------------------------------------------------------------
GateDone(kinds) == post_filter.phase = "done" /\ post_filter.gate.kind \in kinds

C24_FailOpenOnError ==
    GateDone({"raises", "failure"}) => post_filter.results = post_filter.matching_posts

C24_Witness ==
    /\ GateDone({"raises"})
    /\ Len(post_filter.matching_posts) = 2
    /\ post_filter.results # <<>>

\* ------------------------------------------------------------------------
\* C25.  With the AI gate enabled, when the AI call succeeds but no line of
\* its answer is a verdict line, find_matching_posts returns the keyword
\* matches, not an empty or shorter list.
\* ------------------------------------------------------------------------
NothingParseable ==
    \A l \in DOMAIN post_filter.gate.lines : post_filter.gate.lines[l].kind = "other"

C25_FailOpenOnUnparseable ==
    (GateDone({"success"}) /\ NothingParseable) =>
        post_filter.results = post_filter.matching_posts

\* ------------------------------------------------------------------------
\* C29.  When the AI call succeeds, a keyword match is kept if and only if
\* some line of the answer marks its tweet id suitable=yes, whatever lines
\* stand before or after that line, and every kept post carries the reason
\* of a line that approved it.
\* ------------------------------------------------------------------------
Approves(line, tweet_id) ==
    line.kind = "verdict" /\ line.tweet_id = tweet_id /\ line.suitable = "yes"

ApprovedByALine(tweet_id) ==
    \E l \in DOMAIN post_filter.gate.lines :
        Approves(post_filter.gate.lines[l], tweet_id)

Kept(tweet_id) ==
    \E i \in DOMAIN post_filter.results : post_filter.results[i].tweet_id = tweet_id

C29_EachLineOnItsOwn ==
    GateDone({"success"}) =>
        /\ \A p \in DOMAIN post_filter.matching_posts :
               Kept(post_filter.matching_posts[p].tweet_id) <=>
                   ApprovedByALine(post_filter.matching_posts[p].tweet_id)
        /\ \A i \in DOMAIN post_filter.results :
               \E l \in DOMAIN post_filter.gate.lines :
                   /\ Approves(post_filter.gate.lines[l],
                               post_filter.results[i].tweet_id)
                   /\ post_filter.results[i].grok_reason =
                          post_filter.gate.lines[l].reason

\* ------------------------------------------------------------------------
\* C26.  A new subscriber of a campaign is handed the campaign's buffered
\* history in the order of publishing, and after it every entry published
\* from then on, once each and in order: what a subscribed queue has been
\* given is a gapless run of the campaign's entries up to the latest one.
\* ------------------------------------------------------------------------
Subscribed(q, c) == q \in event_log.subscribers[c]

Given(q) == event_log.queues[q].items

GaplessRunOf(c, items) ==
    \A i \in DOMAIN items :
        /\ items[i].message[1] = c
        /\ i > 1 => items[i].message[2] = items[i - 1].message[2] + 1

UpToLatest(c, items) ==
    IF items = <<>> THEN event_log.published[c] = 0
    ELSE items[Len(items)].message[2] = event_log.published[c]

SubscribeStep(c) ==
    /\ last'.op = "subscribe"
    /\ last'.result.campaign_id = c
    /\ Len(event_log'.queues) = Len(event_log.queues) + 1

C26_ReplayThenLive ==
    /\ [](\A c \in LogCampaigns : \A q \in DOMAIN event_log.queues :
              Subscribed(q, c) =>
                  GaplessRunOf(c, Given(q)) /\ UpToLatest(c, Given(q)))
    /\ [][\A c \in LogCampaigns :
              SubscribeStep(c) =>
                  /\ event_log'.queues[Len(event_log'.queues)].items =
                         event_log.log_history[c]
                  /\ Len(event_log'.queues) \in event_log'.subscribers[c]]_vars

C26_Witness ==
    \E c \in LogCampaigns : \E q \in DOMAIN event_log.queues :
        /\ Subscribed(q, c)
        /\ event_log.queues[q].replayed = 1
        /\ Len(Given(q)) = 2
        /\ last.op = "log"
        /\ last.result.campaign_id = c

\* ------------------------------------------------------------------------
\* C27.  After any sequence of publishes the buffered history of a campaign
\* holds at most 100 entries and is exactly the latest min(n, 100) of the n
\* entries published for the campaign, in the order of publishing.
\* ------------------------------------------------------------------------
C27_HistoryIsLastHundred ==
    \A c \in LogCampaigns :
        LET n == event_log.published[c]
            history == event_log.log_history[c]
            kept == IF n < 100 THEN n ELSE 100
        IN  /\ Len(history) <= 100
            /\ Len(history) = kept
            /\ \A i \in DOMAIN history : history[i].message = <<c, n - kept + i>>

C27_Witness ==
    /\ event_log.published[1] = 102
    /\ Len(event_log.log_history[1]) = 100
    /\ event_log.published[2] = 3

\* ------------------------------------------------------------------------
\* C28.  A publish for a campaign puts the entry into every queue subscribed
\* to that campaign whose put does not fail, the failing ones holding up none
\* of the others, and into no other queue: none of another campaign, none
\* that was unsubscribed, none whose put failed.
\* ------------------------------------------------------------------------
PublishStep(c) == last'.op = "log" /\ last'.result.campaign_id = c

GivenNext(q) == event_log'.queues[q].items

C28_BroadcastToSubscribers ==
    [][\A c \in LogCampaigns :
          PublishStep(c) =>
              \A q \in DOMAIN event_log.queues :
                  IF Subscribed(q, c) /\ q \notin last'.result.failing
                  THEN GivenNext(q) =
                           Append(Given(q), LogEntry(c, event_log.published[c] + 1))
                  ELSE GivenNext(q) = Given(q)]_vars

C28_Witness ==
    /\ last.op = "log"
    /\ last.result.campaign_id = 1
    /\ last.result.failing = {1}
    /\ Len(event_log.queues) = 3
    /\ event_log.queues[1].items = <<>>
    /\ event_log.queues[2].items = <<LogEntry(1, 1)>>
    /\ event_log.queues[3].campaign_id = 2
    /\ event_log.queues[3].items = <<>>
    /\ 3 \in event_log.subscribers[2]

\* ------------------------------------------------------------------------
\* C30.  With ai_provider "both" the generating LLM is called only when the
\* native AI's answer to the gating question is yes; an answer of no makes
\* generate_reply return nothing without calling the LLM; an answer of yes is
\* never taken for a refusal.
\* ------------------------------------------------------------------------
Trimmed(answer) ==
    SelectSeq(answer, LAMBDA ch : ch # " " /\ ch # "\n")

SaysYes(answer) ==
    Trimmed(answer) \in {<<"y", "e", "s">>, <<"Y", "e", "s">>, <<"Y", "E", "S">>}

SaysNo(answer) ==
    Trimmed(answer) \in {<<"n", "o">>, <<"N", "o">>, <<"N", "O">>}

AskedBoth == generation.provider = "both" /\ generation.gate_asked

C30_LlmOnlyOnYes ==
    AskedBoth =>
        /\ generation.llm_called => SaysYes(generation.answer)
        /\ SaysNo(generation.answer) =>
               ~generation.llm_called /\ generation.result.kind = "none"
        /\ SaysYes(generation.answer) => generation.llm_called

\* ------------------------------------------------------------------------
\* C31.  When generate_reply returns nothing (the AI refuses, the generation
\* fails, or the provider is not supported), post_reply returns an outcome
\* with success false and does not call the platform's post operation; for
\* an unsupported provider neither an AI nor the platform is called at all.
\* ------------------------------------------------------------------------
Supported == {"grok", "openai", "anthropic", "both"}

PostReplyStep == last'.op = "post_reply"

NothingGenerated == generation'.result.kind = "none"

NoPostCall == platform'.calls = platform.calls /\ platform'.created = platform.created

NoAiCall ==
    ~generation'.gate_asked /\ ~generation'.grok_called /\ ~generation'.llm_called

C31_NullGenerationSkips ==
    [][PostReplyStep =>
          /\ NothingGenerated => ~last'.result.success /\ NoPostCall
          /\ generation'.provider \notin Supported =>
                 NothingGenerated /\ NoAiCall /\ NoPostCall]_vars

\* a refusal by the gating AI on a session that could post
C31_Witness ==
    /\ last.op = "post_reply"
    /\ is_authenticated
    /\ generation.provider = "both"
    /\ generation.answer = <<"n", "o">>
    /\ ~generation.llm_called
    /\ ~last.result.success
    /\ platform.calls[<<1, 1>>] = 0

\* ------------------------------------------------------------------------
\* C32.  When the platform rejects a real post with its rate-limit condition,
\* the outcome post_reply returns differs from the outcome of any other
\* posting failure in something besides the free text of its error.
\* ------------------------------------------------------------------------
FreeText == {"error", "reason"}

Markers(result) == [k \in DOMAIN result \ FreeText |-> result[k]]

RejectedWith(answer) ==
    /\ platform'.calls # platform.calls
    /\ platform'.created = platform.created
    /\ platform'.answered = answer

OtherFailures == CreateTweetOutcomes \ {"ok", "rate_limit"}

C32_RateLimitMarked ==
    [][PostReplyStep /\ RejectedWith("rate_limit") =>
          \A o \in OtherFailures :
              Markers(last'.result) # Markers(PostReply(1, 1, "text", FALSE, o).result)]_vars

\* ------------------------------------------------------------------------
\* C33.  A matched post whose reply attempt failed is attempted again by a
\* later run of the reply step while the campaign stays active: a step that
\* passes the limiter on an active campaign never finds nothing to do while
\* a post of the campaign has a failed attempt and no posted reply.  And one
\* step calls the platform's post operation at most once.
\* ------------------------------------------------------------------------
AttemptFailed(i) ==
    /\ \E j \in DOMAIN campaign_replies :
          /\ campaign_replies[j].campaign_id = matched_posts[i].campaign_id
          /\ campaign_replies[j].target_tweet_id = matched_posts[i].tweet_id
          /\ campaign_replies[j].status = "failed"
    /\ ~\E j \in DOMAIN campaign_replies :
          /\ campaign_replies[j].campaign_id = matched_posts[i].campaign_id
          /\ campaign_replies[j].target_tweet_id = matched_posts[i].tweet_id
          /\ campaign_replies[j].status = "posted"

AwaitsRetry ==
    \E i \in DOMAIN matched_posts :
        /\ AttemptFailed(i)
        /\ campaigns[matched_posts[i].campaign_id] # NoDoc
        /\ campaigns[matched_posts[i].campaign_id].status = "active"

NothingToDo == last'.result = [success |-> FALSE, reason |-> "No pending posts"]

PostCalls(p) ==
    LET keys == DOMAIN p.calls
        RECURSIVE Sum(_)
        Sum(ks) == IF ks = {} THEN 0
                   ELSE LET k == CHOOSE x \in ks : TRUE
                        IN  p.calls[k] + Sum(ks \ {k})
    IN  Sum(keys)

AtMostOnePostCall == PostCalls(platform') <= PostCalls(platform) + 1

C33_FailedIsRetried ==
    [][/\ (last'.op = "process_campaign" /\ last'.gate.can_post /\ AwaitsRetry)
            => ~NothingToDo
       /\ AtMostOnePostCall]_vars

\* ------------------------------------------------------------------------
\* C34.  The reply_status of a stored matched post changes only from pending
\* to posted, failed or duplicate, and only in a process_pending_reply step;
\* a post that has left pending is neither changed nor selected again; no
\* other field of a stored matched post changes.
\* ------------------------------------------------------------------------
Settled == {"posted", "failed", "duplicate"}

StatusChanges(i) == matched_posts'[i].reply_status # matched_posts[i].reply_status

OtherFieldsKept(i) ==
    /\ DOMAIN matched_posts'[i] = DOMAIN matched_posts[i]
    /\ \A f \in DOMAIN matched_posts[i] \ {"reply_status"} :
          matched_posts'[i][f] = matched_posts[i][f]

\* the step attempted a reply: it took up a post that was pending
TookUpPending ==
    Len(campaign_replies') > Len(campaign_replies) =>
        \E i \in DOMAIN matched_posts :
            /\ matched_posts[i].reply_status = "pending"
            /\ StatusChanges(i)
            /\ matched_posts[i].campaign_id =
                   campaign_replies'[Len(campaign_replies')].campaign_id
            /\ matched_posts[i].tweet_id =
                   campaign_replies'[Len(campaign_replies')].target_tweet_id

C34_StatusOnlyLeavesPending ==
    [][/\ \A i \in DOMAIN matched_posts :
             /\ i \in DOMAIN matched_posts'
             /\ OtherFieldsKept(i)
             /\ StatusChanges(i) =>
                    /\ matched_posts[i].reply_status = "pending"
                    /\ matched_posts'[i].reply_status \in Settled
                    /\ last'.op = "process_pending_reply"
       /\ TookUpPending]_vars

\* a reply step that comes after the only post was settled finds nothing
C34_Witness ==
    /\ last.op = "process_pending_reply"
    /\ last.result = [success |-> FALSE, reason |-> "No pending posts"]
    /\ matched_posts # <<>>
    /\ \A i \in DOMAIN matched_posts : matched_posts[i].reply_status \in Settled
    /\ \E i \in DOMAIN matched_posts : matched_posts[i].reply_status = "posted"

\* ------------------------------------------------------------------------
\* C35.  The minimum-delay gate of can_post_reply allows only when the time
\* since the campaign's latest posted, non-dry-run reply is more than 120 s;
\* when it denies, the reason carries 120 s less that time, in whole seconds.
\* ------------------------------------------------------------------------
RealReplyTimes ==
    {campaign_replies[i].posted_at : i \in
        {j \in DOMAIN campaign_replies :
            /\ campaign_replies[j].campaign_id = 1
            /\ campaign_replies[j].status = "posted"
            /\ ~campaign_replies[j].dry_run}}

HasRealReply == RealReplyTimes # {}

LatestRealReply == CHOOSE t \in RealReplyTimes : \A u \in RealReplyTimes : u <= t

\* the time since the latest real reply is more than n seconds
ElapsedExceeds(n) ==
    \/ now - LatestRealReply > n
    \/ now - LatestRealReply = n /\ last.result.fraction

\* 120 s less the time since the latest real reply, in whole seconds
WholeSecondsLeft ==
    120 - (now - LatestRealReply) - (IF last.result.fraction THEN 1 ELSE 0)

Numeral(n) ==
    LET d(k) == DigitChars[k + 1]
    IN  IF n < 10 THEN <<d(n)>>
        ELSE IF n < 100 THEN <<d(n \div 10), d(n % 10)>>
        ELSE <<d(n \div 100), d((n \div 10) % 10), d(n % 10)>>

CarriesWait(text, n) ==
    \E i \in DOMAIN text :
        /\ text[i] = "Wait "
        /\ SubSeq(text, i + 1, Len(text)) = Numeral(n) \o <<"s">>

DelayDenied == ~last.gate.can_post /\ last.gate.reason = "Too soon since last reply"

C35_DelayGateStrict ==
    (last.op = "can_post_reply" /\ HasRealReply) =>
        /\ last.gate.can_post => ElapsedExceeds(120)
        /\ DelayDenied => CarriesWait(last.result.reason, WholeSecondsLeft)

\* ------------------------------------------------------------------------
\* C36.  get_wait_time returns 0 exactly when can_post_reply allows; when the
\* minimum-delay gate denies it returns the remaining wait the reason carries;
\* for every other denial (daily cap, hourly cap, campaign not found,
\* internal error) it returns the minimum delay of 120.
\* ------------------------------------------------------------------------
OtherDenial == ~last.gate.can_post /\ ~DelayDenied

C36_WaitTimeMatchesGate ==
    last.op = "get_wait_time" =>
        /\ last.result.seconds = 0 <=> last.gate.can_post
        /\ DelayDenied => last.result.seconds = WholeSecondsLeft
        /\ OtherDenial => last.result.seconds = 120

\* ------------------------------------------------------------------------
\* C37.  process_pending_reply takes up the pending matched post of the
\* campaign that was stored first: no post is settled while a post of the
\* same campaign stored before it is still pending.
\* ------------------------------------------------------------------------
StoredBeforeAndPending(i) ==
    \E j \in DOMAIN matched_posts :
        /\ j < i
        /\ matched_posts[j].campaign_id = matched_posts[i].campaign_id
        /\ matched_posts[j].reply_status = "pending"

AnalysisInFlight(c) ==
    \E r \in DOMAIN analysis_runs : analysis_runs[r].key.id = c

RepliesTo(c) ==
    \/ \E i \in DOMAIN matched_posts :
          /\ matched_posts[i].campaign_id = c
          /\ i \in DOMAIN matched_posts'
          /\ StatusChanges(i)
    \/ /\ Len(campaign_replies') > Len(campaign_replies)
       /\ campaign_replies'[Len(campaign_replies')].campaign_id = c

C38_NoReplyDuringAnalysis ==
    [][\A c \in CampaignIds : RepliesTo(c) => ~AnalysisInFlight(c)]_vars

\* ------------------------------------------------------------------------
\* C39.  While a campaign stays active, every call returns and the limiter
\* allows again and again, the runs of the interval job settle every pending
\* matched post of the campaign: it eventually is posted, failed or duplicate.
\* ------------------------------------------------------------------------
PendingOfActive(i) ==
    /\ i \in DOMAIN matched_posts
    /\ matched_posts[i].reply_status = "pending"
    /\ campaigns[matched_posts[i].campaign_id] # NoDoc
    /\ campaigns[matched_posts[i].campaign_id].status = "active"

HasLeftPending(i) ==
    /\ i \in DOMAIN matched_posts
    /\ matched_posts[i].reply_status \in {"posted", "failed", "duplicate"}

C39_PendingEventuallySettled ==
    \A i \in 1..2 : PendingOfActive(i) ~> HasLeftPending(i)

\* ------------------------------------------------------------------------
\* C40.  Over all the analysis runs of a campaign at most one matched post is
\* stored for a tweet, so a tweet whose post was posted, failed or marked
\* duplicate is never pending again.
\* ------------------------------------------------------------------------
SameTweet(i, j) ==
    /\ matched_posts[i].campaign_id = matched_posts[j].campaign_id
    /\ matched_posts[i].tweet_id = matched_posts[j].tweet_id

C40_OnePostPerTweet ==
    \A i \in DOMAIN matched_posts, j \in DOMAIN matched_posts :
        i # j => ~SameTweet(i, j)

====
